---------------------------- MODULE Spec2Model ----------------------------
(***************************************************************************)
(* The voice session core of SenSai: the useDeepgramVoice hook             *)
(* (src/unnamed/part_001, duplicated in src/unnamed/part_000).             *)
(*                                                                         *)
(* Every startVoice() invocation k acquires its own microphone stream,     *)
(* MediaRecorder and Deepgram connection; they are identified by k.  The   *)
(* hook's refs hold 0 (null) or the k of the object they point at.         *)
(* Browser and SDK callbacks run one at a time on the event loop, so each  *)
(* handler is one action; an `await` splits a function into two actions.   *)
(*                                                                         *)
(* Spec lets startVoice() be invoked MaxCalls times, at any moment;        *)
(* SpecSolo is the same machine with SoloCalls invocations.                *)
(* SpecInput feeds the hook whole spoken commands.                         *)
(*                                                                         *)
(* The command router of DeepgramVoiceInput (src/unnamed/part_000,         *)
(* handleTranscriptUpdate) is explored on its own under SpecRouter.        *)
(*                                                                         *)
(* The agent-guided widget VapiWidget (src/unnamed/part_004) is explored   *)
(* under SpecWidget: its five state hooks, the highlight class on the      *)
(* page's elements, the call of the current Vapi instance and the pending  *)
(* setTimeout callbacks.  A change of currentHighlight makes React render  *)
(* again, which recreates clearHighlight and re-runs the effect; handlers  *)
(* keep the clearHighlight of the render that registered them.  SpecParse  *)
(* is the widget's message handler fed utterances built word by word.      *)
(*                                                                         *)
(* The token route GET /api/deepgram-token                                 *)
(* (src/sensai-frontend/src/app/api/deepgram-token/route.ts) is explored   *)
(* under SpecToken, one request per k.                                     *)
(*                                                                         *)
(* The DeepgramTranscriber component (src/unnamed/part_002) is explored    *)
(* under SpecTranscriber: every run r of its effect has its own            *)
(* isComponentMounted flag, stream, recorder and connection.  The          *)
(* useLiveTranscription hook (src/unnamed/part_004) is explored under      *)
(* SpecListen, one attempt per call of startListening.                     *)
(*                                                                         *)
(* VoiceTranscriberDialog (src/unnamed/part_003) is explored under         *)
(* SpecDialog together with the DeepgramTranscriber it renders: every      *)
(* commit of the dialog mounts or unmounts the transcriber in the same     *)
(* step.  SpecPhrases feeds the widget's message handler one utterance     *)
(* per entry of UI_ELEMENT_MAP.                                            *)
(***************************************************************************)
EXTENDS Naturals, Sequences, FiniteSets

\* ------------------------------------------------------------------ bounds
MaxCalls   == 2     \* startVoice() invocations explored under Spec
SoloCalls  == 1     \* startVoice() invocations explored under SpecSolo
MaxChunks  == 1     \* timeslice chunks of one recorder awaiting arrayBuffer()
MaxBufLen  == 3     \* characters bufferRef may reach
MaxFinals  == 2     \* spoken commands committed under SpecInput
MaxWords   == 4     \* words of a text put together word by word
MaxMessages == 2    \* transcript messages the widget receives
MaxSpoken  == 3     \* words of an assistant utterance under SpecParse
MaxRequests == 3    \* GET /api/deepgram-token requests under SpecToken
MaxRuns    == 2     \* runs of DeepgramTranscriber's effect under SpecTranscriber
MaxAttempts == 2    \* startListening() calls of useLiveTranscription under SpecListen

Null  == 0
Calls == 1..MaxCalls

\* The texts a Transcript event carries: strings over two letters and the
\* whitespace that trim() removes.
Texts == {<<>>, <<" ">>, <<"a">>, <<" ", "b", " ">>}

\* The texts of the Transcript events explored under SpecInput:
\* "please create course now", "Join Course", "submit task", "hello".
Commands ==
  { <<"p", "l", "e", "a", "s", "e", " ", "c", "r", "e", "a", "t", "e", " ", "c", "o", "u", "r", "s", "e", " ", "n", "o", "w">>,
    <<"J", "o", "i", "n", " ", "C", "o", "u", "r", "s", "e">>,
    <<"s", "u", "b", "m", "i", "t", " ", "t", "a", "s", "k">>,
    <<"h", "e", "l", "l", "o">> }

\* The words the transcripts explored under SpecRouter are made of.
Vocabulary ==
  { <<"c", "r", "e", "a", "t", "e">>,
    <<"C", "r", "e", "a", "t", "e">>,
    <<"c", "o", "u", "r", "s", "e">>,
    <<"c", "o", "u", "r", "s", "e", "s">>,
    <<"j", "o", "i", "n">>,
    <<"s", "u", "b", "m", "i", "t">>,
    <<"t", "a", "s", "k">> }

VARIABLES
  recorderRef,     \* recorderRef.current: Null or the session whose recorder it is
  dgConnRef,       \* dgConnRef.current: Null or the session whose connection it is
  bufferRef,       \* bufferRef.current: the committed transcript
  isVoiceActive,   \* React state
  liveTranscript,  \* React state
  pc,              \* where each startVoice() invocation is
  track,           \* the audio track of session k's stream: none / live / ended
  trackStops,      \* calls of track.stop() on it
  rec,             \* MediaRecorder.state of session k's recorder (none: not built)
  stopTask,        \* the task MediaRecorder.stop() queued has not run yet
  converting,      \* dataavailable listeners suspended in e.data.arrayBuffer()
  conn,            \* connection: none / connecting / open / closed
  finishCalls,     \* calls of dgConn.finish()
  onErrorCalls,    \* onError() calls made by invocation k
  emitted,         \* the arguments of the onTranscriptUpdate() calls of the last step
  hist,            \* what has happened to session k (observation only)
  finals,          \* the non-empty final texts since bufferRef was last reset
                   \* (observation only)
  spoken,          \* the text being put together, word by word
  fired,           \* the command handlers the last step invoked
  mounted,         \* VapiWidget is mounted
  vapi,            \* React state: the Vapi instance (they are numbered)
  callState,       \* the call of that instance: idle / started
  callStartPending, \* its call-start event has not been delivered yet
  pendingEnds,     \* call-end events not delivered yet: for each, the
                   \* currentHighlight its handler's clearHighlight closed over
  isConnected,     \* React state
  isSpeaking,      \* React state
  transcript,      \* React state
  currentHighlight, \* React state
  renderedHighlight, \* currentHighlight as of the last render: the value the
                   \* clearHighlight of that render, and of its effect, closed over
  highlighted,     \* the elements that carry the class vapi-highlight
  timers,          \* pending setTimeout callbacks, in creation order; late: the
                   \* timer was created while a render was pending and no
                   \* render has completed since (a render takes milliseconds,
                   \* a timer 500 ms or more: the render comes first)
  transcriber,     \* DeepgramTranscriber: its refs and React state, the setters
                   \* and callbacks its last step called, and for each run of
                   \* its effect the run's isComponentMounted, stream, recorder
                   \* and connection
  listening,       \* useLiveTranscription: its refs and React state, the
                   \* setters its last step called, and for each call of
                   \* startListening its position, stream, recorder and connection
  dialog,          \* VoiceTranscriberDialog: its isOpen prop and React state
  requests         \* the GET /api/deepgram-token requests: where the handler
                   \* is, what it was given and what it answered

vars == <<recorderRef, dgConnRef, bufferRef, isVoiceActive, liveTranscript, pc,
          track, trackStops, rec, stopTask, converting, conn, finishCalls,
          onErrorCalls, emitted, hist, finals, spoken, fired,
          mounted, vapi, callState, callStartPending, pendingEnds, isConnected,
          isSpeaking, transcript, currentHighlight, renderedHighlight,
          highlighted, timers, requests, transcriber, listening, dialog>>

\* The variables of DeepgramVoiceInput's command router.  The hook does not
\* touch them: DeepgramVoiceInput hands the hook its own onTranscriptUpdate
\* prop (part_000:216-219); handleTranscriptUpdate is referenced nowhere.
routerVars == <<spoken, fired>>

widgetVars == <<mounted, vapi, callState, callStartPending, pendingEnds, isConnected,
                isSpeaking, transcript, currentHighlight, renderedHighlight,
                highlighted, timers>>

tokenVars == <<requests>>

transcriberVars == <<transcriber>>

listenVars == <<listening>>

dialogVars == <<dialog>>

hookVars == <<recorderRef, dgConnRef, bufferRef, isVoiceActive, liveTranscript, pc,
              track, trackStops, rec, stopTask, converting, conn, finishCalls,
              onErrorCalls, emitted, hist, finals>>

\* ------------------------------------------------------------ pure helpers
RECURSIVE trimStart(_)
trimStart(s) == IF s # <<>> /\ Head(s) = " " THEN trimStart(Tail(s)) ELSE s

RECURSIVE trimEnd(_)
trimEnd(s) ==
  IF s # <<>> /\ s[Len(s)] = " " THEN trimEnd(SubSeq(s, 1, Len(s) - 1)) ELSE s

\* String.prototype.trim
trim(s) == trimEnd(trimStart(s))

\* data.channel.alternatives[0]?.transcript.trim()
transcriptOf(text, hasAlt) == IF hasAlt THEN trim(text) ELSE <<>>

IsPrefix(s, t) == Len(s) <= Len(t) /\ SubSeq(t, 1, Len(s)) = s

\* ------------------------------------------------------- the program state
\* The part of the state the hook's functions read and write, as one value.
\* emitted starts empty: it collects the callback calls of the step being taken.
Cur ==
  [recorderRef |-> recorderRef, dgConnRef |-> dgConnRef, bufferRef |-> bufferRef,
   isVoiceActive |-> isVoiceActive, liveTranscript |-> liveTranscript,
   track |-> track, trackStops |-> trackStops, rec |-> rec, stopTask |-> stopTask,
   conn |-> conn, finishCalls |-> finishCalls, emitted |-> <<>>]

Commit(s) ==
  /\ recorderRef' = s.recorderRef
  /\ dgConnRef' = s.dgConnRef
  /\ bufferRef' = s.bufferRef
  /\ isVoiceActive' = s.isVoiceActive
  /\ liveTranscript' = s.liveTranscript
  /\ track' = s.track
  /\ trackStops' = s.trackStops
  /\ rec' = s.rec
  /\ stopTask' = s.stopTask
  /\ conn' = s.conn
  /\ finishCalls' = s.finishCalls
  /\ emitted' = s.emitted

\* MediaRecorder.stop().  Recording: the state becomes inactive at once and the
\* browser queues one task that fires the last dataavailable and then stop.
\* Inactive: nothing is queued (the call returns or throws InvalidStateError,
\* depending on the browser; the caller's try/catch makes both the same).
recorderStop(s, k) ==
  IF s.rec[k] = "recording"
  THEN [s EXCEPT !.rec[k] = "inactive", !.stopTask[k] = TRUE]
  ELSE s

\* dgConn.finish() inside try/catch: the close request is made (or throws and
\* is swallowed); the connection closes later, by its own Close event.
connFinish(s, k) == [s EXCEPT !.finishCalls[k] = s.finishCalls[k] + 1]

\* cleanupVoice without the two assignments that clear the refs.
cleanupVoice_keepsRefs(s) ==
  LET s1 == IF s.recorderRef # Null THEN recorderStop(s, s.recorderRef) ELSE s
      s2 == IF s1.dgConnRef # Null THEN connFinish(s1, s1.dgConnRef) ELSE s1
  IN  [s2 EXCEPT !.isVoiceActive = FALSE,
                 !.liveTranscript = <<>>,
                 !.bufferRef = <<>>]

\* cleanupVoice
cleanupVoice(s) ==
  LET s1 == IF s.recorderRef # Null THEN recorderStop(s, s.recorderRef) ELSE s
      s2 == IF s1.dgConnRef # Null THEN connFinish(s1, s1.dgConnRef) ELSE s1
  IN  [s2 EXCEPT !.recorderRef = Null,
                 !.dgConnRef = Null,
                 !.isVoiceActive = FALSE,
                 !.liveTranscript = <<>>,
                 !.bufferRef = <<>>]

\* wireSession with recorder.start() called right after the wiring, not by Open.
wireSession_startsRecorder(s, k) ==
  [s EXCEPT !.track[k] = "live",
            !.rec[k] = "recording",
            !.recorderRef = k,
            !.conn[k] = "connecting",
            !.dgConnRef = k]

\* startVoice, after getUserMedia resolved: recorder and connection are built,
\* stored in the refs and wired; the recorder is not started here.
wireSession(s, k) ==
  [s EXCEPT !.track[k] = "live",
            !.rec[k] = "inactive",
            !.recorderRef = k,
            !.conn[k] = "connecting",
            !.dgConnRef = k]

\* The Transcript handler with `=` for `+=`: a final text replaces the buffer.
onTranscript_replaces(s, text, hasAlt, isFinal) ==
  LET txt == IF hasAlt THEN trim(text) ELSE <<>>
  IN  IF txt # <<>> /\ isFinal
      THEN [s EXCEPT !.bufferRef = txt, !.liveTranscript = txt,
                     !.emitted = Append(s.emitted, txt)]
      ELSE IF txt # <<>>
      THEN [s EXCEPT !.liveTranscript = s.bufferRef \o <<" ">> \o txt]
      ELSE s

\* The Transcript handler without its onTranscriptUpdate() call.
onTranscript_noUpdate(s, text, hasAlt, isFinal) ==
  LET txt == IF hasAlt THEN trim(text) ELSE <<>>
  IN  IF txt # <<>> /\ isFinal
      THEN LET b == s.bufferRef \o (IF s.bufferRef # <<>> THEN <<" ">> ELSE <<>>) \o txt
           IN  [s EXCEPT !.bufferRef = b, !.liveTranscript = b]
      ELSE IF txt # <<>>
      THEN [s EXCEPT !.liveTranscript = s.bufferRef \o <<" ">> \o txt]
      ELSE s

\* The Transcript handler.
onTranscript(s, text, hasAlt, isFinal) ==
  LET txt == IF hasAlt THEN trim(text) ELSE <<>>   \* undefined is falsy too
  IN  IF txt # <<>> /\ isFinal
      THEN LET b == s.bufferRef \o (IF s.bufferRef # <<>> THEN <<" ">> ELSE <<>>) \o txt
           IN  [s EXCEPT !.bufferRef = b, !.liveTranscript = b,
                         !.emitted = Append(s.emitted, b)]
      ELSE IF txt # <<>>
      THEN [s EXCEPT !.liveTranscript = s.bufferRef \o <<" ">> \o txt]
      ELSE s

\* recorder.onstop.  getUserMedia({ audio: true }) yields one audio track.
recorderOnStop(s, k) ==
  LET s1 == [s EXCEPT !.isVoiceActive = FALSE,
                      !.track[k] = "ended",
                      !.trackStops[k] = s.trackStops[k] + 1]
  IN  connFinish(s1, k)

\* ---------------------------------------------------------- command router
UpperCase == <<"A", "B", "C", "D", "E", "F", "G", "H", "I", "J", "K", "L", "M", "N", "O", "P", "Q", "R", "S", "T", "U", "V", "W", "X", "Y", "Z">>
LowerCase == <<"a", "b", "c", "d", "e", "f", "g", "h", "i", "j", "k", "l", "m", "n", "o", "p", "q", "r", "s", "t", "u", "v", "w", "x", "y", "z">>

\* String.prototype.toLowerCase, on the letters A-Z
LowerOf ==
  [c \in {UpperCase[j] : j \in 1..26} |-> LowerCase[CHOOSE j \in 1..26 : UpperCase[j] = c]]

toLowerCase(s) ==
  [i \in 1..Len(s) |-> IF s[i] \in DOMAIN LowerOf THEN LowerOf[s[i]] ELSE s[i]]

\* String.prototype.includes
includes(s, p) ==
  /\ Len(p) <= Len(s)
  /\ \/ p = <<>>
     \/ \E i \in 1..(Len(s) - Len(p) + 1) :
          s[i] = p[1] /\ SubSeq(s, i, i + Len(p) - 1) = p

\* The number of words of a text whose words are separated by single spaces.
wordCount(s) ==
  IF s = <<>> THEN 0 ELSE 1 + Cardinality({i \in 1..Len(s) : s[i] = " "})

\* "create course", "join course", "submit task"
CreateCourse == <<"c", "r", "e", "a", "t", "e", " ", "c", "o", "u", "r", "s", "e">>
JoinCourse   == <<"j", "o", "i", "n", " ", "c", "o", "u", "r", "s", "e">>
SubmitTask   == <<"s", "u", "b", "m", "i", "t", " ", "t", "a", "s", "k">>

\* handleTranscriptUpdate with the first two tests in the other order.
handleTranscriptUpdate_joinFirst(said) ==
  LET normalizedTranscript == toLowerCase(said)
  IN  IF includes(normalizedTranscript, JoinCourse) THEN "handleJoinCourseAction"
      ELSE IF includes(normalizedTranscript, CreateCourse)
      THEN "handleCreateCourseButtonClick"
      ELSE IF includes(normalizedTranscript, SubmitTask) THEN "handleSubmitTaskAction"
      ELSE "handleFallbackAction"

\* handleTranscriptUpdate: the handler it invokes.
handleTranscriptUpdate(said) ==
  LET normalizedTranscript == toLowerCase(said)
  IN  IF includes(normalizedTranscript, CreateCourse)
      THEN "handleCreateCourseButtonClick"
      ELSE IF includes(normalizedTranscript, JoinCourse) THEN "handleJoinCourseAction"
      ELSE IF includes(normalizedTranscript, SubmitTask) THEN "handleSubmitTaskAction"
      ELSE "handleFallbackAction"

\* ----------------------------------------------------------- VapiWidget
\* UI_ELEMENT_MAP, as Object.entries() lists it: in declaration order.
UI_ELEMENT_MAP ==
  <<
     [elementName |-> <<"c","r","e","a","t","e"," ","a","c","c","o","u","n","t">>,
      selector |-> "#create-account-btn"],
     [elementName |-> <<"s","i","g","n"," ","u","p">>,
      selector |-> "#signup-button"],
     [elementName |-> <<"s","i","g","n","u","p">>,
      selector |-> "#signup-button"],
     [elementName |-> <<"e","m","a","i","l">>,
      selector |-> "#email-input"],
     [elementName |-> <<"e","m","a","i","l"," ","f","i","e","l","d">>,
      selector |-> "#email-input"],
     [elementName |-> <<"p","a","s","s","w","o","r","d">>,
      selector |-> "#password-input"],
     [elementName |-> <<"p","a","s","s","w","o","r","d"," ","f","i","e","l","d">>,
      selector |-> "#password-input"],
     [elementName |-> <<"c","o","n","f","i","r","m"," ","p","a","s","s","w","o","r","d">>,
      selector |-> "#confirm-password-input"],
     [elementName |-> <<"m","a","r","k"," ","c","o","m","p","l","e","t","e">>,
      selector |-> "#mark-complete-btn"],
     [elementName |-> <<"n","e","x","t"," ","t","a","s","k">>,
      selector |-> "#next-task-btn"],
     [elementName |-> <<"n","e","x","t">>,
      selector |-> "#next-task-btn"],
     [elementName |-> <<"p","r","e","v","i","o","u","s"," ","t","a","s","k">>,
      selector |-> "#prev-task-btn"],
     [elementName |-> <<"p","r","e","v","i","o","u","s">>,
      selector |-> "#prev-task-btn"],
     [elementName |-> <<"t","h","e"," ","q","u","i","z">>,
      selector |-> "#quiz-container"],
     [elementName |-> <<"q","u","i","z">>,
      selector |-> "#quiz-container"],
     [elementName |-> <<"c","r","e","a","t","e"," ","c","o","u","r","s","e">>,
      selector |-> "#create-course-btn"],
     [elementName |-> <<"j","o","i","n"," ","c","o","u","r","s","e">>,
      selector |-> "#join-course-btn"],
     [elementName |-> <<"c","o","u","r","s","e"," ","n","a","m","e">>,
      selector |-> "#course-name-input"],
     [elementName |-> <<"c","o","u","r","s","e"," ","c","o","d","e">>,
      selector |-> "#course-code-input"],
     [elementName |-> <<"e","n","r","o","l","l">>,
      selector |-> "#enroll-btn"],
     [elementName |-> <<"e","n","r","o","l","l","m","e","n","t">>,
      selector |-> "#enroll-btn"],
     [elementName |-> <<"y","o","u","r"," ","c","o","u","r","s","e","s">>,
      selector |-> "#course-grid"],
     [elementName |-> <<"l","i","s","t"," ","o","f"," ","c","o","u","r","s","e","s">>,
      selector |-> "#course-grid"],
     [elementName |-> <<"c","o","u","r","s","e"," ","l","i","s","t">>,
      selector |-> "#course-grid"],
     [elementName |-> <<"c","o","u","r","s","e","s">>,
      selector |-> "#course-grid"],
     [elementName |-> <<"s","u","b","m","i","t">>,
      selector |-> "#submit-btn"],
     [elementName |-> <<"s","u","b","m","i","t"," ","t","a","s","k">>,
      selector |-> "#submit-task-btn"],
     [elementName |-> <<"u","p","l","o","a","d">>,
      selector |-> "#upload-btn"],
     [elementName |-> <<"s","t","o","r","a","g","e"," ","q","u","e","u","e">>,
      selector |-> ".storage-queue-icon"],
     [elementName |-> <<"s","t","o","r","a","g","e","-","q","u","e","u","e">>,
      selector |-> ".storage-queue-icon"],
     [elementName |-> <<"o","f","f","l","i","n","e"," ","s","u","b","m","i","t">>,
      selector |-> "#offline-submit-btn"],
     [elementName |-> <<"f","i","l","e"," ","u","p","l","o","a","d">>,
      selector |-> "#file-upload-input"],
     [elementName |-> <<"d","a","s","h","b","o","a","r","d">>,
      selector |-> "#dashboard-link"],
     [elementName |-> <<"p","r","o","f","i","l","e">>,
      selector |-> "#profile-link"],
     [elementName |-> <<"s","e","t","t","i","n","g","s">>,
      selector |-> "#settings-link"]
  >>

\* click, tap, press, select, choose, find, look for,
\* go to, navigate, open, access, enter, fill, type
INTERACTION_KEYWORDS ==
  << <<"c","l","i","c","k">>,
     <<"t","a","p">>,
     <<"p","r","e","s","s">>,
     <<"s","e","l","e","c","t">>,
     <<"c","h","o","o","s","e">>,
     <<"f","i","n","d">>,
     <<"l","o","o","k"," ","f","o","r">>,
     <<"g","o"," ","t","o">>,
     <<"n","a","v","i","g","a","t","e">>,
     <<"o","p","e","n">>,
     <<"a","c","c","e","s","s">>,
     <<"e","n","t","e","r">>,
     <<"f","i","l","l">>,
     <<"t","y","p","e">> >>

\* The value of currentHighlight when it is null, and parseForUIElements' null.
NoHighlight == "null"
NoMatch == [elementName |-> <<>>, selector |-> NoHighlight]

\* The elements document.querySelector finds on the page the widget is shown
\* on: the dashboard link and the signup button (and no course grid).
Page == {"#dashboard-link", "#signup-button"}

\* The utterances of the messages explored under SpecWidget:
\* "let's open the dashboard now", "Click Sign Up",
\* "your dashboard is ready", "open your courses".
Utterances ==
  { <<"l","e","t","'","s"," ","o","p","e","n"," ","t","h","e"," ","d","a","s","h","b","o","a","r","d"," ","n","o","w">>,
    <<"C","l","i","c","k"," ","S","i","g","n"," ","U","p">>,
    <<"y","o","u","r"," ","d","a","s","h","b","o","a","r","d"," ","i","s"," ","r","e","a","d","y">>,
    <<"o","p","e","n"," ","y","o","u","r"," ","c","o","u","r","s","e","s">> }

\* The words the utterances explored under SpecParse are made of.
AssistantWords ==
  { <<"O","p","e","n">>,
    <<"t","y","p","e">>,
    <<"d","a","s","h","b","o","a","r","d">>,
    <<"S","i","g","n">>,
    <<"u","p">>,
    <<"c","o","u","r","s","e","s">> }

Roles == {"assistant", "user"}
MessageTypes == {"transcript", "speech-update"}

\* INTERACTION_KEYWORDS.some(keyword => lowercaseText.includes(keyword))
hasInteractionKeyword(lowercaseText) ==
  \E i \in 1..Len(INTERACTION_KEYWORDS) : includes(lowercaseText, INTERACTION_KEYWORDS[i])

\* elementName.toLowerCase(), for each entry of UI_ELEMENT_MAP
LoweredNames == [i \in 1..Len(UI_ELEMENT_MAP) |-> toLowerCase(UI_ELEMENT_MAP[i].elementName)]

\* The for loop of parseForUIElements returning the last entry it finds.
firstMention_lastDeclared(lowercaseText, i) ==
  LET found == {j \in i..Len(UI_ELEMENT_MAP) : includes(lowercaseText, LoweredNames[j])}
  IN  IF found = {} THEN NoMatch
      ELSE UI_ELEMENT_MAP[CHOOSE j \in found : \A k \in found : k <= j]

\* The for loop of parseForUIElements, from entry i on.
RECURSIVE firstMention(_, _)
firstMention(lowercaseText, i) ==
  IF i > Len(UI_ELEMENT_MAP) THEN NoMatch
  ELSE IF includes(lowercaseText, LoweredNames[i])
  THEN UI_ELEMENT_MAP[i]
  ELSE firstMention(lowercaseText, i + 1)

\* parseForUIElements without the test of the interaction keywords.
parseForUIElements_ungated(text) == firstMention(toLowerCase(text), 1)

\* parseForUIElements
parseForUIElements(text) ==
  LET lowercaseText == toLowerCase(text)
  IN  IF ~hasInteractionKeyword(lowercaseText) THEN NoMatch
      ELSE firstMention(lowercaseText, 1)

\* The widget's state, as one value.
Wid ==
  [mounted |-> mounted, vapi |-> vapi, callState |-> callState,
   callStartPending |-> callStartPending, pendingEnds |-> pendingEnds,
   isConnected |-> isConnected, isSpeaking |-> isSpeaking, transcript |-> transcript,
   currentHighlight |-> currentHighlight, renderedHighlight |-> renderedHighlight,
   highlighted |-> highlighted, timers |-> timers]

CommitWid(s) ==
  /\ mounted' = s.mounted
  /\ vapi' = s.vapi
  /\ callState' = s.callState
  /\ callStartPending' = s.callStartPending
  /\ pendingEnds' = s.pendingEnds
  /\ isConnected' = s.isConnected
  /\ isSpeaking' = s.isSpeaking
  /\ transcript' = s.transcript
  /\ currentHighlight' = s.currentHighlight
  /\ renderedHighlight' = s.renderedHighlight
  /\ highlighted' = s.highlighted
  /\ timers' = s.timers

\* The state setters.  React drops the update of an unmounted component.
setCurrentHighlight(s, v) == IF s.mounted THEN [s EXCEPT !.currentHighlight = v] ELSE s
setIsConnected(s, v) == IF s.mounted THEN [s EXCEPT !.isConnected = v] ELSE s
setIsSpeaking(s, v) == IF s.mounted THEN [s EXCEPT !.isSpeaking = v] ELSE s
setTranscript(s, v) == IF s.mounted THEN [s EXCEPT !.transcript = v] ELSE s

\* React has a render of the widget to do: currentHighlight changed.
RenderPending(s) == s.mounted /\ s.currentHighlight # s.renderedHighlight

\* setTimeout(callback, 500 or 5000)
setTimeout(s, kind, selector) ==
  [s EXCEPT !.timers =
     Append(@, [kind |-> kind, selector |-> selector, late |-> RenderPending(s)])]

\* No render is pending any more: the timers created meanwhile may fire.
Settle(s) ==
  IF RenderPending(s) THEN s
  ELSE [s EXCEPT !.timers = [i \in 1..Len(@) |-> [@[i] EXCEPT !.late = FALSE]]]

\* highlightElement that does not remove the existing highlights first.
highlightElement_keepsOthers(s, selector) ==
  IF selector \in Page
  THEN LET s1 == [s EXCEPT !.highlighted = @ \cup {selector}]
           s2 == setCurrentHighlight(s1, selector)
       IN  setTimeout(s2, "expire", selector)
  ELSE s

\* highlightElement that removes the existing highlights before it looks for
\* the element.
highlightElement_clearsFirst(s, selector) ==
  LET s0 == [s EXCEPT !.highlighted = @ \ @]
  IN  IF selector \in Page
      THEN LET s1 == [s0 EXCEPT !.highlighted = {selector}]
               s2 == setCurrentHighlight(s1, selector)
           IN  setTimeout(s2, "expire", selector)
      ELSE s0

\* highlightElement.  The element is found: every .vapi-highlight loses the
\* class, the element gains it, currentHighlight is set and the 5000 ms timer
\* is created.  Not found: a warning, nothing else.
highlightElement(s, selector) ==
  IF selector \in Page
  THEN LET s1 == [s EXCEPT !.highlighted = (@ \ @) \cup {selector}]
           s2 == setCurrentHighlight(s1, selector)
       IN  setTimeout(s2, "expire", selector)
  ELSE s

\* The callback of highlightElement's timer: it holds the element itself.
expireHighlight(s, selector) ==
  setCurrentHighlight([s EXCEPT !.highlighted = @ \ {selector}], NoHighlight)

\* clearHighlight, as created by a render in which currentHighlight was
\* `closed`: the callback reads that value, not the present one.
clearHighlight(s, closed) ==
  IF closed # NoHighlight
  THEN setCurrentHighlight(
         [s EXCEPT !.highlighted = IF closed \in Page THEN @ \ {closed} ELSE @],
         NoHighlight)
  ELSE s

\* vapi.stop() on the instance whose handlers closed over `closed`: a call in
\* progress ends and the instance will emit call-end.
vapiStop(s, closed) ==
  IF s.callState = "started"
  THEN [s EXCEPT !.callState = "idle",
                 !.callStartPending = FALSE,
                 !.pendingEnds = @ \cup {closed}]
  ELSE s

\* The cleanup of the effect.
effectCleanup(s) == vapiStop(clearHighlight(s, s.renderedHighlight), s.renderedHighlight)

\* The handler of the message event.
onMessage(s, role, type, text) ==
  IF type # "transcript" THEN s
  ELSE LET s1 == setTranscript(s, Append(s.transcript, [role |-> role, text |-> text]))
           uiElement == parseForUIElements(text)
       IN  IF role = "assistant" /\ uiElement # NoMatch
           THEN setTimeout(s1, "highlight", uiElement.selector)
           ELSE s1

\* ------------------------------------------ the route /api/deepgram-token
Undefined == "undefined"
NoError   == "null"

\* process.env.DEEPGRAM_API_KEY: not set, set to the empty string, set.
EnvKeys == {Undefined, "", "dg-key"}

\* What `await dg.auth.grantToken()` yields: it rejects, or resolves with
\* { result: null, error }, with { result, error: null } where access_token may
\* be missing from the upstream answer, or with neither.  error is a
\* DeepgramError: its message is a string.
NoGrant == [rejected |-> FALSE, hasResult |-> FALSE, access_token |-> Undefined, error |-> NoError]
Grants ==
  { [rejected |-> TRUE,  hasResult |-> FALSE, access_token |-> Undefined, error |-> NoError],
    [rejected |-> FALSE, hasResult |-> FALSE, access_token |-> Undefined, error |-> "quota"],
    [rejected |-> FALSE, hasResult |-> TRUE,  access_token |-> "tok", error |-> NoError],
    [rejected |-> FALSE, hasResult |-> TRUE,  access_token |-> Undefined, error |-> NoError],
    NoGrant }

\* NextResponse.json(body, { status }): JSON.stringify leaves out the
\* properties whose value is undefined.  body: a set of <<name, value>>.
NoResponse == [status |-> 0, body |-> {}]
json(body, status) == [status |-> status, body |-> {f \in body : f[2] # Undefined}]

\* How a piece of the handler ends: it returns a response, throws, or awaits.
Returned(r) == [kind |-> "return", response |-> r]
Thrown      == [kind |-> "throw", response |-> NoResponse]
Suspended   == [kind |-> "await", response |-> NoResponse]

\* GET, from its entry to the await of grantToken().
GET_entry(apiKey, clientThrows) ==
  IF apiKey \in {Undefined, ""}
  THEN Returned(json({<<"error", "Missing Deepgram API key">>}, 500))
  ELSE IF clientThrows THEN Thrown
  ELSE Suspended

\* GET, after grantToken() settled.  Reading result.access_token of a null
\* result throws a TypeError.
GET_resume(grant) ==
  IF grant.rejected THEN Thrown
  ELSE IF grant.error # NoError
  THEN Returned(json({<<"error", grant.error>>}, 500))
  ELSE IF ~grant.hasResult THEN Thrown
  ELSE Returned(json({<<"token", grant.access_token>>}, 200))

\* The handler's try/catch without a catch clause that answers.
tryCatch_rethrows(outcome) == outcome

\* try { ... } catch (err) { return NextResponse.json({ error: ... }, 500) }
tryCatch(outcome) ==
  IF outcome.kind = "throw"
  THEN Returned(json({<<"error", "Failed to fetch token">>}, 500))
  ELSE outcome

\* The request after a piece of the handler ended with outcome.
settle(req, outcome) ==
  [req EXCEPT !.pc = CASE outcome.kind = "await"  -> "awaitGrant"
                       [] outcome.kind = "return" -> "responded"
                       [] outcome.kind = "throw"  -> "threw",
              !.response = outcome.response]

\* --------------------------------------------------- DeepgramTranscriber
Runs == 1..MaxRuns

\* A run of the effect as it begins.  transcriber.runs holds the runs begun so
\* far.
NoRun == [pc |-> "notRun", isComponentMounted |-> FALSE, track |-> "none",
          rec |-> "none", conn |-> "none", opened |-> FALSE, finishCalls |-> 0,
          sent |-> 0, sentBeforeOpen |-> FALSE]

\* A callback prop is called, or a state setter (see setState).
call(d, name) == [d EXCEPT !.calls = Append(@, name)]

\* A useState setter is called.  React drops the update of a component that
\* is not mounted.
setState(d, setter, v) ==
  IF ~d.mounted THEN call(d, setter)
  ELSE call(CASE setter = "setError"       -> [d EXCEPT !.error = v]
              [] setter = "setIsListening" -> [d EXCEPT !.isListening = v]
              [] setter = "setIsConnected" -> [d EXCEPT !.isConnected = v]
              [] setter = "setTranscript"  -> [d EXCEPT !.transcript = v],
            setter)

\* cleanup without the release of the microphone stream.
cleanup_keepsStream(d) ==
  LET r1 == d.mediaRecorderRef
      d1 == IF r1 # Null /\ d.runs[r1].rec # "inactive"
            THEN [d EXCEPT !.runs[r1].rec = "inactive"] ELSE d
      r3 == d1.connectionRef
      d3 == IF r3 # Null
            THEN [d1 EXCEPT !.runs[r3].finishCalls = @ + 1, !.connectionRef = Null]
            ELSE d1
  IN  setState(setState(d3, "setIsListening", FALSE), "setIsConnected", FALSE)

\* cleanup: the recorder is stopped unless inactive, the tracks of the stream
\* are stopped, the connection is asked to finish; the stream and connection
\* refs are cleared.
cleanup(d) ==
  LET r1 == d.mediaRecorderRef
      d1 == IF r1 # Null /\ d.runs[r1].rec # "inactive"
            THEN [d EXCEPT !.runs[r1].rec = "inactive"] ELSE d
      r2 == d1.mediaStreamRef
      d2 == IF r2 # Null
            THEN [d1 EXCEPT !.runs[r2].track = "ended", !.mediaStreamRef = Null]
            ELSE d1
      r3 == d2.connectionRef
      d3 == IF r3 # Null
            THEN [d2 EXCEPT !.runs[r3].finishCalls = @ + 1, !.connectionRef = Null]
            ELSE d2
  IN  setState(setState(d3, "setIsListening", FALSE), "setIsConnected", FALSE)

\* The cleanup of run r of the effect.
transcriberCleanup(d, r) == cleanup([d EXCEPT !.runs[r].isComponentMounted = FALSE])

\* The catch clause of startTranscription without its test of
\* isComponentMounted.
startFailed_unguarded(d, r) ==
  call(setState(setState(setState([d EXCEPT !.runs[r].pc = "failed"],
                                  "setError", "error"),
                         "setIsListening", FALSE),
                "setIsConnected", FALSE),
       "onError")

\* The catch clause of startTranscription.
startFailed(d, r) ==
  LET d1 == [d EXCEPT !.runs[r].pc = "failed"]
  IN  IF d1.runs[r].isComponentMounted
      THEN call(setState(setState(setState(d1, "setError", "error"),
                                  "setIsListening", FALSE),
                         "setIsConnected", FALSE),
                "onError")
      ELSE d1

\* Run r of the effect begins: startTranscription up to its await of
\* getUserMedia.  clientThrows: createClient(apiKey) throws.
startTranscription(d, r, clientThrows) ==
  LET d1 == setState([d EXCEPT !.runs[r].isComponentMounted = TRUE], "setError", "null")
  IN  IF clientThrows THEN startFailed(d1, r)
      ELSE [d1 EXCEPT !.runs[r].pc = "awaitMic"]

\* startTranscription with the test of isComponentMounted after the await
\* left out.
micResolved_unguarded(d, r) ==
  [d EXCEPT !.runs[r].pc = "running",
            !.runs[r].track = "live",
            !.mediaStreamRef = r,
            !.runs[r].conn = "connecting",
            !.connectionRef = r,
            !.runs[r].rec = "recording",
            !.mediaRecorderRef = r]

\* startTranscription after getUserMedia resolved.  Unmounted meanwhile: the
\* tracks are stopped and it returns.  Otherwise the stream is stored, the
\* connection created and wired, the recorder created, wired and started.
micResolved(d, r) ==
  IF ~d.runs[r].isComponentMounted
  THEN [d EXCEPT !.runs[r].pc = "discarded", !.runs[r].track = "ended"]
  ELSE [d EXCEPT !.runs[r].pc = "running",
                 !.runs[r].track = "live",
                 !.mediaStreamRef = r,
                 !.runs[r].conn = "connecting",
                 !.connectionRef = r,
                 !.runs[r].rec = "recording",
                 !.mediaRecorderRef = r]

\* The handlers of the connection of run r.
transcriberOnOpen(d, r) ==
  LET d1 == [d EXCEPT !.runs[r].conn = "open", !.runs[r].opened = TRUE]
  IN  IF d1.runs[r].isComponentMounted
      THEN setState(setState(d1, "setIsConnected", TRUE), "setIsListening", TRUE)
      ELSE d1

transcriberOnClose(d, r) ==
  LET d1 == [d EXCEPT !.runs[r].conn = "closed"]
  IN  IF d1.runs[r].isComponentMounted
      THEN setState(setState(d1, "setIsConnected", FALSE), "setIsListening", FALSE)
      ELSE d1

transcriberOnError(d, r) ==
  LET d1 == [d EXCEPT !.runs[r].conn = "closed"]
  IN  IF d1.runs[r].isComponentMounted
      THEN call(setState(setState(setState(d1, "setError", "error"),
                                  "setIsListening", FALSE),
                         "setIsConnected", FALSE),
                "onError")
      ELSE d1

\* transcript: data.channel?.alternatives?.[0]?.transcript
transcriberOnTranscript(d, r, text, hasAlt, isFinal) ==
  IF ~d.runs[r].isComponentMounted THEN d
  ELSE IF hasAlt /\ text # <<>> /\ trim(text) # <<>> /\ isFinal
  THEN call(d, "onTranscript")
  ELSE d

\* mediaRecorder.ondataavailable
transcriberOnData(d, r, nonEmpty) ==
  IF nonEmpty /\ d.runs[r].isComponentMounted
  THEN [d EXCEPT !.runs[r].sent = @ + 1,
                 !.runs[r].sentBeforeOpen = @ \/ ~d.runs[r].opened]
  ELSE d

\* mediaRecorder.onerror
transcriberOnRecorderError(d, r) ==
  IF d.runs[r].isComponentMounted THEN call(d, "onError") ELSE d

\* The step the component takes begins: nothing has been called yet.
Quiet(d) == [d EXCEPT !.calls = <<>>]

\* ------------------------------------------------- VoiceTranscriberDialog
\* The dialog renders DeepgramTranscriber (its apiKey prop is set).
rendersTranscriber(g) == g.isOpen /\ g.isVoiceActive /\ g.hasPermission # "false"

\* handleError, the onError prop of the transcriber; handleTranscript, its
\* onTranscript prop, for each call the transcriber t made in its last step.
handleCalls(g, t) ==
  LET heard == Len(SelectSeq(t.calls, LAMBDA c : c = "onTranscript"))
      g1 == [g EXCEPT !.allTranscripts = @ + heard]
  IN  IF \E i \in 1..Len(t.calls) : t.calls[i] = "onError"
      THEN [g1 EXCEPT !.hasPermission = "false", !.isVoiceActive = FALSE]
      ELSE g1

\* React commits the dialog g over the transcriber t: the transcriber is
\* mounted when the dialog starts to render it (its effect runs) and unmounted
\* when the dialog stops rendering it (the cleanup of its effect runs).
commit(g, t) ==
  IF rendersTranscriber(g) /\ ~t.mounted
  THEN startTranscription([t EXCEPT !.mounted = TRUE,
                                    !.run = @ + 1,
                                    !.runs = Append(@, NoRun),
                                    !.isListening = FALSE,
                                    !.isConnected = FALSE,
                                    !.error = "null"],
                          t.run + 1, FALSE)
  ELSE IF ~rendersTranscriber(g) /\ t.mounted
  THEN [transcriberCleanup(t, t.run) EXCEPT !.mounted = FALSE]
  ELSE t

\* The steps the transcriber's run r can take by itself: getUserMedia settles,
\* an event of its connection or of its recorder.
transcriberSteps(t, r) ==
  LET run == t.runs[r]
  IN  (IF run.pc = "awaitMic" THEN {micResolved(t, r), startFailed(t, r)} ELSE {})
      \cup (IF run.conn = "connecting" THEN {transcriberOnOpen(t, r)} ELSE {})
      \cup (IF run.conn \in {"connecting", "open"}
            THEN {transcriberOnClose(t, r), transcriberOnError(t, r)} ELSE {})
      \cup (IF run.conn = "open"
            THEN {transcriberOnTranscript(t, r, text, TRUE, isFinal) :
                    text \in Texts, isFinal \in BOOLEAN}
            ELSE {})
      \cup (IF run.rec = "recording" /\ run.sent < MaxChunks
            THEN {transcriberOnData(t, r, TRUE)} ELSE {})
      \cup (IF run.rec = "recording" THEN {transcriberOnRecorderError(t, r)} ELSE {})

\* -------------------------------------------------- useLiveTranscription
Attempts == 1..MaxAttempts

\* The transcripts a Transcript event of useLiveTranscription carries.
Heard == {<<>>, <<"a">>, <<"b">>}

\* A call of startListening as it is made (listening.attempts holds the calls
\* made so far).  finished: finish() was
\* called on its connection.  own and afterStop record the text its own
\* connection delivered and whether stopListening was called between the
\* previous call and this one.
NoAttempt == [pc |-> "idle", track |-> "none", rec |-> "none", conn |-> "none",
              finished |-> FALSE, sent |-> 0, own |-> <<>>, afterStop |-> FALSE]

\* buffer += (buffer ? " " : "") + transcriptText
appendText(buffer, transcriptText) ==
  buffer \o (IF buffer # <<>> THEN <<" ">> ELSE <<>>) \o transcriptText

\* startListening is called: fetchDeepgramToken awaits the fetch.
startListening(d) ==
  [d EXCEPT !.attempt = @ + 1,
            !.stopped = FALSE,
            !.attempts = Append(@, [NoAttempt EXCEPT !.pc = "awaitToken",
                                                     !.afterStop = d.stopped])]

\* fetchDeepgramToken's catch clause; startListening returns on the null.
tokenFailed(d, a) ==
  setState([d EXCEPT !.attempts[a].pc = "noToken"], "setError", "token")

\* The token arrived: the live connection is created and stored in
\* deepgramRef, its Transcript handler wired, and getUserMedia awaited.
tokenResolved(d, a) ==
  [d EXCEPT !.attempts[a].pc = "awaitMic",
            !.attempts[a].conn = "connecting",
            !.deepgramRef = a]

\* getUserMedia resolved: the stream and a started recorder are stored.
listenMicResolved(d, a) ==
  setState([d EXCEPT !.attempts[a].pc = "listening",
                     !.attempts[a].track = "live",
                     !.mediaStreamRef = a,
                     !.attempts[a].rec = "recording",
                     !.mediaRecorderRef = a],
           "setIsListening", TRUE)

\* getUserMedia rejected: the catch clause of startListening.
listenMicRejected(d, a) ==
  setState([d EXCEPT !.attempts[a].pc = "micFailed"], "setError", "microphone")

\* The Transcript handler of the connection of attempt a.  Without an
\* alternative, alternatives[0].transcript throws inside the handler.
listenOnTranscript(d, a, transcriptText, hasAlt) ==
  IF hasAlt /\ transcriptText # <<>>
  THEN setState([d EXCEPT !.bufferRef = appendText(@, transcriptText),
                          !.attempts[a].own = appendText(@, transcriptText)],
                "setTranscript", appendText(d.bufferRef, transcriptText))
  ELSE d

\* mediaRecorder.ondataavailable: the chunk goes to the connection that
\* deepgramRef holds.
listenOnData(d, nonEmpty) ==
  IF nonEmpty /\ d.deepgramRef # Null
  THEN [d EXCEPT !.attempts[d.deepgramRef].sent = @ + 1]
  ELSE d

\* stopListening
stopListening(d) ==
  LET r1 == d.mediaRecorderRef
      d1 == IF r1 # Null /\ d.attempts[r1].rec # "inactive"
            THEN [d EXCEPT !.attempts[r1].rec = "inactive"] ELSE d
      r2 == d1.mediaStreamRef
      d2 == IF r2 # Null THEN [d1 EXCEPT !.attempts[r2].track = "ended"] ELSE d1
      r3 == d2.deepgramRef
      d3 == IF r3 # Null THEN [d2 EXCEPT !.attempts[r3].finished = TRUE] ELSE d2
  IN  setState([d3 EXCEPT !.stopped = TRUE], "setIsListening", FALSE)

\* The sequence without its i-th element.
RemoveAt(seq, i) == SubSeq(seq, 1, i - 1) \o SubSeq(seq, i + 1, Len(seq))

\* ------------------------------------------------------------------- Init
\*   overlapped  the invocation began while an earlier one was suspended
\*   cancelled   stopVoice ran while the invocation was suspended
\*   stopped     stopVoice ran while the refs pointed at the session
\*   stopFailed  recorder.stop(), called by that stopVoice, threw
\*   opened      the connection has emitted Open
\*   errored     the connection has emitted Error
NoHist == [overlapped |-> FALSE, cancelled |-> FALSE, stopped |-> FALSE,
           stopFailed |-> FALSE, opened |-> FALSE, errored |-> FALSE]

Init ==
  /\ recorderRef = Null
  /\ dgConnRef = Null
  /\ bufferRef = <<>>
  /\ isVoiceActive = FALSE
  /\ liveTranscript = <<>>
  /\ pc = [k \in Calls |-> "notCalled"]
  /\ track = [k \in Calls |-> "none"]
  /\ trackStops = [k \in Calls |-> 0]
  /\ rec = [k \in Calls |-> "none"]
  /\ stopTask = [k \in Calls |-> FALSE]
  /\ converting = [k \in Calls |-> 0]
  /\ conn = [k \in Calls |-> "none"]
  /\ finishCalls = [k \in Calls |-> 0]
  /\ onErrorCalls = [k \in Calls |-> 0]
  /\ emitted = <<>>
  /\ finals = <<>>
  /\ spoken = <<>>
  /\ fired = <<>>
  /\ mounted = TRUE
  /\ vapi = 1
  /\ callState = "idle"
  /\ callStartPending = FALSE
  /\ pendingEnds = {}
  /\ isConnected = FALSE
  /\ isSpeaking = FALSE
  /\ transcript = <<>>
  /\ currentHighlight = NoHighlight
  /\ renderedHighlight = NoHighlight
  /\ highlighted = {}
  /\ timers = <<>>
  /\ transcriber = [mounted |-> FALSE, run |-> 0,
                    connectionRef |-> Null, mediaRecorderRef |-> Null,
                    mediaStreamRef |-> Null, isListening |-> FALSE,
                    isConnected |-> FALSE, error |-> "null", calls |-> <<>>,
                    runs |-> <<>>]
  /\ listening = [mounted |-> TRUE, attempt |-> 0, stopped |-> FALSE,
                  isListening |-> FALSE, transcript |-> <<>>, error |-> "null",
                  deepgramRef |-> Null, mediaStreamRef |-> Null,
                  mediaRecorderRef |-> Null, bufferRef |-> <<>>, calls |-> <<>>,
                  attempts |-> <<>>]
  /\ dialog = [isOpen |-> FALSE, isVoiceActive |-> FALSE, hasPermission |-> "null",
               allTranscripts |-> 0, requesting |-> FALSE]
  /\ requests = <<>>
  /\ hist = [k \in Calls |-> NoHist]

Pending(k) == pc[k] \in {"awaitToken", "awaitMic"}

\* recorder.stop() on an inactive recorder throws InvalidStateError in the
\* browsers that follow the older MediaRecorder text and returns in the others.
StopMayThrow == recorderRef # Null /\ rec[recorderRef] = "inactive"

\* What stopVoice, run now, does to the observations: the invocations it
\* finds suspended are cancelled, the session the refs point at is stopped.
MarkStop(threw) ==
  [j \in Calls |->
     [hist[j] EXCEPT !.cancelled = @ \/ Pending(j),
                     !.stopped = @ \/ recorderRef = j,
                     !.stopFailed = @ \/ (threw /\ recorderRef = j)]]

\* ---------------------------------------------------------------- actions
\* startVoice up to its first await (the fetch of the token).
StartVoice(k) ==
  /\ pc[k] = "notCalled"
  /\ \A j \in Calls : j < k => pc[j] # "notCalled"
  /\ Commit([cleanupVoice(Cur) EXCEPT !.isVoiceActive = TRUE,
                                      !.liveTranscript = <<>>,
                                      !.bufferRef = <<>>])
  /\ pc' = [pc EXCEPT ![k] = "awaitToken"]
  /\ hist' = [hist EXCEPT ![k].overlapped = \E j \in Calls : Pending(j)]
  /\ finals' = <<>>
  /\ UNCHANGED <<converting, onErrorCalls>>
  /\ UNCHANGED <<routerVars, widgetVars, tokenVars, transcriberVars, listenVars, dialogVars>>

\* TokenOk with the connection created before getUserMedia is awaited.
TokenOk_connectsFirst(k) ==
  /\ pc[k] = "awaitToken"
  /\ pc' = [pc EXCEPT ![k] = "awaitMic"]
  /\ conn' = [conn EXCEPT ![k] = "connecting"]
  /\ dgConnRef' = k
  /\ emitted' = <<>>
  /\ UNCHANGED <<recorderRef, bufferRef, isVoiceActive, liveTranscript,
                 track, trackStops, rec, stopTask, converting,
                 finishCalls, onErrorCalls, hist, finals>>
  /\ UNCHANGED <<routerVars, widgetVars, tokenVars, transcriberVars, listenVars, dialogVars>>

\* fetch() and tokenRes.json() resolved with a token: createClient, then
\* startVoice suspends in getUserMedia.
TokenOk(k) ==
  /\ pc[k] = "awaitToken"
  /\ pc' = [pc EXCEPT ![k] = "awaitMic"]
  /\ emitted' = <<>>
  /\ UNCHANGED <<recorderRef, dgConnRef, bufferRef, isVoiceActive, liveTranscript,
                 track, trackStops, rec, stopTask, converting, conn,
                 finishCalls, onErrorCalls, hist, finals>>
  /\ UNCHANGED <<routerVars, widgetVars, tokenVars, transcriberVars, listenVars, dialogVars>>

\* TokenFail without setIsVoiceActive(false).
TokenFail_staysActive(k) ==
  /\ pc[k] = "awaitToken"
  /\ onErrorCalls' = [onErrorCalls EXCEPT ![k] = @ + 1]
  /\ pc' = [pc EXCEPT ![k] = "tokenFailed"]
  /\ emitted' = <<>>
  /\ UNCHANGED <<recorderRef, dgConnRef, bufferRef, isVoiceActive, liveTranscript,
                 track, trackStops, rec, stopTask, converting, conn,
                 finishCalls, hist, finals>>
  /\ UNCHANGED <<routerVars, widgetVars, tokenVars, transcriberVars, listenVars, dialogVars>>

\* fetch() or json() rejected, or the body has no token: the catch block.
TokenFail(k) ==
  /\ pc[k] = "awaitToken"
  /\ onErrorCalls' = [onErrorCalls EXCEPT ![k] = @ + 1]
  /\ isVoiceActive' = FALSE
  /\ pc' = [pc EXCEPT ![k] = "tokenFailed"]
  /\ emitted' = <<>>
  /\ UNCHANGED <<recorderRef, dgConnRef, bufferRef, liveTranscript, track,
                 trackStops, rec, stopTask, converting, conn,
                 finishCalls, hist, finals>>
  /\ UNCHANGED <<routerVars, widgetVars, tokenVars, transcriberVars, listenVars, dialogVars>>

\* getUserMedia resolved with a stream: the rest of startVoice runs.
MicOk(k) ==
  /\ pc[k] = "awaitMic"
  /\ Commit(wireSession(Cur, k))
  /\ pc' = [pc EXCEPT ![k] = "done"]
  /\ UNCHANGED <<converting, onErrorCalls, hist, finals>>
  /\ UNCHANGED <<routerVars, widgetVars, tokenVars, transcriberVars, listenVars, dialogVars>>

\* getUserMedia rejected: the catch block.
MicFail(k) ==
  /\ pc[k] = "awaitMic"
  /\ onErrorCalls' = [onErrorCalls EXCEPT ![k] = @ + 1]
  /\ isVoiceActive' = FALSE
  /\ pc' = [pc EXCEPT ![k] = "micFailed"]
  /\ emitted' = <<>>
  /\ UNCHANGED <<recorderRef, dgConnRef, bufferRef, liveTranscript, track,
                 trackStops, rec, stopTask, converting, conn,
                 finishCalls, hist, finals>>
  /\ UNCHANGED <<routerVars, widgetVars, tokenVars, transcriberVars, listenVars, dialogVars>>

\* stopVoice.  threw: recorder.stop() threw inside cleanupVoice's try.
StopVoice(threw) ==
  /\ threw => StopMayThrow
  /\ Commit(cleanupVoice(Cur))
  /\ hist' = MarkStop(threw)
  /\ finals' = <<>>
  /\ UNCHANGED <<pc, converting, onErrorCalls>>
  /\ UNCHANGED <<routerVars, widgetVars, tokenVars, transcriberVars, listenVars, dialogVars>>

\* The connection's Open event: the handler starts the recorder.  (start()
\* throws on a recorder that is not inactive; Open fires once, so it is.)
\* A finish() made while the socket is connecting does not cancel the attempt
\* (the SDK queues the close request or throws): Open may still follow it.
ConnOpen(k) ==
  /\ conn[k] = "connecting"
  /\ conn' = [conn EXCEPT ![k] = "open"]
  /\ rec' = [rec EXCEPT ![k] = IF @ = "inactive" THEN "recording" ELSE @]
  /\ hist' = [hist EXCEPT ![k].opened = TRUE]
  /\ emitted' = <<>>
  /\ UNCHANGED <<recorderRef, dgConnRef, bufferRef, isVoiceActive, liveTranscript,
                 pc, track, trackStops, stopTask, converting,
                 finishCalls, onErrorCalls, finals>>
  /\ UNCHANGED <<routerVars, widgetVars, tokenVars, transcriberVars, listenVars, dialogVars>>

\* A Transcript event of connection k.  hasAlt = FALSE: alternatives is empty.
TranscriptEvent(k, text, hasAlt, isFinal) ==
  /\ conn[k] = "open"
  /\ Commit(onTranscript(Cur, text, hasAlt, isFinal))
  /\ finals' = IF isFinal /\ transcriptOf(text, hasAlt) # <<>>
               THEN Append(finals, transcriptOf(text, hasAlt))
               ELSE finals
  /\ UNCHANGED <<pc, converting, onErrorCalls, hist>>
  /\ UNCHANGED <<routerVars, widgetVars, tokenVars, transcriberVars, listenVars, dialogVars>>

\* A Transcript event, explored while bufferRef fits in MaxBufLen characters.
ConnTranscript(k, text, hasAlt, isFinal) ==
  /\ TranscriptEvent(k, text, hasAlt, isFinal)
  /\ Len(bufferRef') <= MaxBufLen

\* A Transcript event carrying a spoken command, explored up to MaxFinals
\* committed texts.
VoiceCommand(k, text, isFinal) ==
  /\ isFinal => Len(finals) < MaxFinals
  /\ TranscriptEvent(k, text, TRUE, isFinal)

\* The connection's Error event; the socket closes after it.  The hook
\* registers no handler for Error.
ConnError(k) ==
  /\ conn[k] \in {"connecting", "open"}
  /\ conn' = [conn EXCEPT ![k] = "closed"]
  /\ hist' = [hist EXCEPT ![k].errored = TRUE]
  /\ emitted' = <<>>
  /\ UNCHANGED <<recorderRef, dgConnRef, bufferRef, isVoiceActive, liveTranscript,
                 pc, track, trackStops, rec, stopTask, converting,
                 finishCalls, onErrorCalls, finals>>
  /\ UNCHANGED <<routerVars, widgetVars, tokenVars, transcriberVars, listenVars, dialogVars>>

\* The connection's Close event.  The hook registers no handler for it.
ConnClose(k) ==
  /\ conn[k] \in {"connecting", "open"}
  /\ conn' = [conn EXCEPT ![k] = "closed"]
  /\ emitted' = <<>>
  /\ UNCHANGED <<recorderRef, dgConnRef, bufferRef, isVoiceActive, liveTranscript,
                 pc, track, trackStops, rec, stopTask, converting,
                 finishCalls, onErrorCalls, hist, finals>>
  /\ UNCHANGED <<routerVars, widgetVars, tokenVars, transcriberVars, listenVars, dialogVars>>

\* The recorder's 250 ms timeslice elapses: dataavailable fires and the
\* listener runs up to its await of e.data.arrayBuffer().
RecorderTimeslice(k) ==
  /\ rec[k] = "recording"
  /\ converting[k] < MaxChunks
  /\ converting' = [converting EXCEPT ![k] = @ + 1]
  /\ emitted' = <<>>
  /\ UNCHANGED <<recorderRef, dgConnRef, bufferRef, isVoiceActive, liveTranscript,
                 pc, track, trackStops, rec, stopTask, conn, finishCalls,
                 onErrorCalls, hist, finals>>
  /\ UNCHANGED <<routerVars, widgetVars, tokenVars, transcriberVars, listenVars, dialogVars>>

\* arrayBuffer() resolved: dgConn.send(buf).
ArrayBufferResolved(k) ==
  /\ converting[k] > 0
  /\ converting' = [converting EXCEPT ![k] = @ - 1]
  /\ emitted' = <<>>
  /\ UNCHANGED <<recorderRef, dgConnRef, bufferRef, isVoiceActive, liveTranscript,
                 pc, track, trackStops, rec, stopTask, conn, finishCalls,
                 onErrorCalls, hist, finals>>
  /\ UNCHANGED <<routerVars, widgetVars, tokenVars, transcriberVars, listenVars, dialogVars>>

\* The task queued by MediaRecorder.stop(): the last dataavailable (its
\* listener suspends in arrayBuffer()), then the stop event: recorder.onstop.
RecorderStopTask(k) ==
  /\ stopTask[k]
  /\ converting' = [converting EXCEPT ![k] = @ + 1]
  /\ Commit([recorderOnStop(Cur, k) EXCEPT !.stopTask[k] = FALSE])
  /\ UNCHANGED <<pc, onErrorCalls, hist, finals>>
  /\ UNCHANGED <<routerVars, widgetVars, tokenVars, transcriberVars, listenVars, dialogVars>>

\* Everything but startVoice() invocations and Transcript events.
Lifecycle ==
  \/ \E k \in Calls : TokenOk(k)
  \/ \E k \in Calls : TokenFail(k)
  \/ \E k \in Calls : MicOk(k)
  \/ \E k \in Calls : MicFail(k)
  \/ \E threw \in BOOLEAN : StopVoice(threw)
  \/ \E k \in Calls : ConnOpen(k)
  \/ \E k \in Calls : ConnError(k)
  \/ \E k \in Calls : ConnClose(k)
  \/ \E k \in Calls : RecorderTimeslice(k)
  \/ \E k \in Calls : ArrayBufferResolved(k)
  \/ \E k \in Calls : RecorderStopTask(k)

\* Everything but a new startVoice() invocation.
Events ==
  \/ Lifecycle
  \/ \E k \in Calls, text \in Texts, isFinal \in BOOLEAN :
       ConnTranscript(k, text, TRUE, isFinal)
  \/ \E k \in Calls, isFinal \in BOOLEAN : ConnTranscript(k, <<>>, FALSE, isFinal)

\* The hook called by any caller: startVoice() may be invoked at any time.
Next ==
  \/ \E k \in Calls : StartVoice(k)
  \/ Events

\* The hook with SoloCalls invocations of startVoice().
NextSolo ==
  \/ \E k \in 1..SoloCalls : StartVoice(k)
  \/ Events

Spec == Init /\ [][Next]_vars

SpecSolo == Init /\ [][NextSolo]_vars

\* DeepgramVoiceInput (part_000): the hook, fed with spoken commands.
NextInput ==
  \/ \E k \in 1..SoloCalls : StartVoice(k)
  \/ Lifecycle
  \/ \E k \in Calls, text \in Commands, isFinal \in BOOLEAN :
       VoiceCommand(k, text, isFinal)

SpecInput == Init /\ [][NextInput]_vars

\* ------------------------------------------------- the command router alone
\* A transcript is put together word by word ...
Hear(w) ==
  /\ wordCount(spoken) < MaxWords
  /\ spoken' = IF spoken = <<>> THEN w ELSE spoken \o <<" ">> \o w
  /\ fired' = <<>>
  /\ UNCHANGED <<hookVars, widgetVars, tokenVars, transcriberVars, listenVars, dialogVars>>

\* ... and handed to handleTranscriptUpdate.
Route ==
  /\ fired' = <<handleTranscriptUpdate(spoken)>>
  /\ UNCHANGED spoken
  /\ UNCHANGED <<hookVars, widgetVars, tokenVars, transcriberVars, listenVars, dialogVars>>

NextRouter ==
  \/ \E w \in Vocabulary : Hear(w)
  \/ Route

SpecRouter == Init /\ [][NextRouter]_vars

\* ---------------------------------------------------- VapiWidget: actions
\* startCall, by the Start button (rendered while isConnected is false).
StartCall ==
  /\ mounted /\ ~isConnected
  /\ vapi # Null
  /\ callState = "idle"
  /\ CommitWid([Wid EXCEPT !.callState = "started", !.callStartPending = TRUE])
  /\ UNCHANGED <<hookVars, routerVars, tokenVars, transcriberVars, listenVars, dialogVars>>

\* The call-start event.
CallStart ==
  /\ callStartPending
  /\ CommitWid(setIsConnected([Wid EXCEPT !.callStartPending = FALSE], TRUE))
  /\ UNCHANGED <<hookVars, routerVars, tokenVars, transcriberVars, listenVars, dialogVars>>

\* The speech-start and speech-end events.
SpeechStart ==
  /\ callState = "started"
  /\ CommitWid(setIsSpeaking(Wid, TRUE))
  /\ UNCHANGED <<hookVars, routerVars, tokenVars, transcriberVars, listenVars, dialogVars>>

SpeechEnd ==
  /\ callState = "started"
  /\ CommitWid(setIsSpeaking(Wid, FALSE))
  /\ UNCHANGED <<hookVars, routerVars, tokenVars, transcriberVars, listenVars, dialogVars>>

\* A message event of the call in progress.
Message(role, type, text) ==
  /\ callState = "started"
  /\ Len(transcript) < MaxMessages
  /\ CommitWid(onMessage(Wid, role, type, text))
  /\ UNCHANGED <<hookVars, routerVars, tokenVars, transcriberVars, listenVars, dialogVars>>

\* The 500 ms timer of the message handler fires: highlightElement.  Timers
\* of equal delay fire in creation order; a 500 ms timer never waits for a
\* 5000 ms timer.
TimerHighlight ==
  \E i \in 1..Len(timers) :
    /\ timers[i].kind = "highlight"
    /\ ~timers[i].late
    /\ \A j \in 1..(i - 1) : timers[j].kind # "highlight"
    /\ CommitWid(highlightElement([Wid EXCEPT !.timers = RemoveAt(@, i)],
                                  timers[i].selector))
    /\ UNCHANGED <<hookVars, routerVars, tokenVars, transcriberVars, listenVars, dialogVars>>

\* The 5000 ms timer of highlightElement fires: every timer created before it
\* has fired.
TimerExpire ==
  /\ timers # <<>>
  /\ Head(timers).kind = "expire"
  /\ ~Head(timers).late
  /\ CommitWid(expireHighlight([Wid EXCEPT !.timers = Tail(@)], Head(timers).selector))
  /\ UNCHANGED <<hookVars, routerVars, tokenVars, transcriberVars, listenVars, dialogVars>>

\* React renders the widget after currentHighlight changed: clearHighlight is
\* a new function (its dependency changed), so the effect that depends on it
\* is cleaned up and run again: the old clearHighlight runs, the old instance
\* is stopped, a new Vapi instance is created and its handlers close over the
\* new clearHighlight.
Render ==
  /\ mounted
  /\ currentHighlight # renderedHighlight
  /\ CommitWid(Settle([effectCleanup(Wid) EXCEPT !.vapi = vapi + 1,
                                                 !.renderedHighlight = currentHighlight]))
  /\ UNCHANGED <<hookVars, routerVars, tokenVars, transcriberVars, listenVars, dialogVars>>

\* The call-end event of an instance whose handlers closed over `closed`.
CallEnd(closed) ==
  /\ closed \in pendingEnds
  /\ CommitWid(clearHighlight(
       setIsSpeaking(setIsConnected([Wid EXCEPT !.pendingEnds = @ \ {closed}], FALSE),
                     FALSE),
       closed))
  /\ UNCHANGED <<hookVars, routerVars, tokenVars, transcriberVars, listenVars, dialogVars>>

\* The other side ends the call in progress.
RemoteHangup ==
  /\ callState = "started"
  /\ CommitWid(vapiStop(Wid, renderedHighlight))
  /\ UNCHANGED <<hookVars, routerVars, tokenVars, transcriberVars, listenVars, dialogVars>>

\* endCall, by the End button (rendered while isConnected is true).
EndCall ==
  /\ mounted /\ isConnected
  /\ vapi # Null
  /\ CommitWid(vapiStop(clearHighlight(Wid, renderedHighlight), renderedHighlight))
  /\ UNCHANGED <<hookVars, routerVars, tokenVars, transcriberVars, listenVars, dialogVars>>

\* The widget is unmounted: the cleanup of the effect runs.
Unmount ==
  /\ mounted
  /\ CommitWid(Settle([effectCleanup(Wid) EXCEPT !.mounted = FALSE]))
  /\ UNCHANGED <<hookVars, routerVars, tokenVars, transcriberVars, listenVars, dialogVars>>

NextWidget ==
  \/ StartCall
  \/ CallStart
  \/ SpeechStart
  \/ SpeechEnd
  \/ \E role \in Roles, type \in MessageTypes, text \in Utterances :
       Message(role, type, text)
  \/ TimerHighlight
  \/ TimerExpire
  \/ Render
  \/ \E closed \in Page \cup {NoHighlight} : CallEnd(closed)
  \/ RemoteHangup
  \/ EndCall
  \/ Unmount

SpecWidget == Init /\ [][NextWidget]_vars

\* The assistant's utterance grows by a word.
Utter(w) ==
  /\ wordCount(spoken) < MaxSpoken
  /\ spoken' = IF spoken = <<>> THEN w ELSE spoken \o <<" ">> \o w
  /\ UNCHANGED <<fired, hookVars, widgetVars, tokenVars, transcriberVars, listenVars, dialogVars>>

\* The message handler alone, fed with utterances put together word by word.
NextParse ==
  \/ StartCall
  \/ \E w \in AssistantWords : Utter(w)
  \/ \E role \in Roles, type \in MessageTypes : Message(role, type, spoken)

SpecParse == Init /\ [][NextParse]_vars

\* The message handler alone, fed for every entry of UI_ELEMENT_MAP with the
\* utterance "Click <phrase>".
NextPhrases ==
  \/ StartCall
  \/ \E j \in 1..Len(UI_ELEMENT_MAP) :
       Message("assistant", "transcript",
               <<"C", "l", "i", "c", "k", " ">> \o UI_ELEMENT_MAP[j].elementName)

SpecPhrases == Init /\ [][NextPhrases]_vars

\* A GET /api/deepgram-token request arrives: the handler runs to its await.
\* clientThrows: createClient(apiKey) throws.
GetRequest(apiKey, clientThrows) ==
  /\ Len(requests) < MaxRequests
  /\ requests' = Append(requests,
       settle([pc |-> "idle", apiKey |-> apiKey,
               clientThrew |-> (apiKey \notin {Undefined, ""}) /\ clientThrows,
               grant |-> NoGrant, response |-> NoResponse],
              tryCatch(GET_entry(apiKey, clientThrows))))
  /\ UNCHANGED <<hookVars, routerVars, widgetVars, transcriberVars, listenVars, dialogVars>>

\* grantToken() settles: the handler resumes.
GrantSettled(k, grant) ==
  /\ k <= Len(requests)
  /\ requests[k].pc = "awaitGrant"
  /\ requests' = [requests EXCEPT ![k] =
       settle([@ EXCEPT !.grant = grant], tryCatch(GET_resume(grant)))]
  /\ UNCHANGED <<hookVars, routerVars, widgetVars, transcriberVars, listenVars, dialogVars>>

NextToken ==
  \/ \E apiKey \in EnvKeys, clientThrows \in BOOLEAN : GetRequest(apiKey, clientThrows)
  \/ \E k \in 1..MaxRequests, grant \in Grants : GrantSettled(k, grant)

SpecToken == Init /\ [][NextToken]_vars

\* DeepgramTranscriber is mounted: its state is the initial one and the
\* effect runs.
TranscriberMount(clientThrows) ==
  /\ ~transcriber.mounted
  /\ transcriber.run < MaxRuns
  /\ transcriber' =
       startTranscription([Quiet(transcriber) EXCEPT !.mounted = TRUE,
                                                     !.run = @ + 1,
                                                     !.runs = Append(@, NoRun),
                                                     !.isListening = FALSE,
                                                     !.isConnected = FALSE,
                                                     !.error = "null"],
                          transcriber.run + 1, clientThrows)
  /\ UNCHANGED <<hookVars, routerVars, widgetVars, tokenVars, listenVars, dialogVars>>

\* A dependency of the effect changed (apiKey, onTranscript, onError): the
\* cleanup of the current run, then a new run.
TranscriberRerun(clientThrows) ==
  /\ transcriber.mounted
  /\ transcriber.run < MaxRuns
  /\ transcriber' =
       startTranscription([transcriberCleanup(Quiet(transcriber), transcriber.run)
                             EXCEPT !.run = @ + 1, !.runs = Append(@, NoRun)],
                          transcriber.run + 1, clientThrows)
  /\ UNCHANGED <<hookVars, routerVars, widgetVars, tokenVars, listenVars, dialogVars>>

\* DeepgramTranscriber is unmounted: the cleanup of the current run.
TranscriberUnmount ==
  /\ transcriber.mounted
  /\ transcriber' =
       [transcriberCleanup(Quiet(transcriber), transcriber.run) EXCEPT !.mounted = FALSE]
  /\ UNCHANGED <<hookVars, routerVars, widgetVars, tokenVars, listenVars, dialogVars>>

\* getUserMedia of run r resolves.
TranscriberMicOk(r) ==
  /\ r <= transcriber.run
  /\ transcriber.runs[r].pc = "awaitMic"
  /\ transcriber' = micResolved(Quiet(transcriber), r)
  /\ UNCHANGED <<hookVars, routerVars, widgetVars, tokenVars, listenVars, dialogVars>>

\* getUserMedia of run r rejects.
TranscriberMicFail(r) ==
  /\ r <= transcriber.run
  /\ transcriber.runs[r].pc = "awaitMic"
  /\ transcriber' = startFailed(Quiet(transcriber), r)
  /\ UNCHANGED <<hookVars, routerVars, widgetVars, tokenVars, listenVars, dialogVars>>

\* The events of the connection of run r.
TranscriberOpen(r) ==
  /\ r <= transcriber.run
  /\ transcriber.runs[r].conn = "connecting"
  /\ transcriber' = transcriberOnOpen(Quiet(transcriber), r)
  /\ UNCHANGED <<hookVars, routerVars, widgetVars, tokenVars, listenVars, dialogVars>>

TranscriberClose(r) ==
  /\ r <= transcriber.run
  /\ transcriber.runs[r].conn \in {"connecting", "open"}
  /\ transcriber' = transcriberOnClose(Quiet(transcriber), r)
  /\ UNCHANGED <<hookVars, routerVars, widgetVars, tokenVars, listenVars, dialogVars>>

TranscriberError(r) ==
  /\ r <= transcriber.run
  /\ transcriber.runs[r].conn \in {"connecting", "open"}
  /\ transcriber' = transcriberOnError(Quiet(transcriber), r)
  /\ UNCHANGED <<hookVars, routerVars, widgetVars, tokenVars, listenVars, dialogVars>>

TranscriberTranscript(r, text, hasAlt, isFinal) ==
  /\ r <= transcriber.run
  /\ transcriber.runs[r].conn = "open"
  /\ transcriber' = transcriberOnTranscript(Quiet(transcriber), r, text, hasAlt, isFinal)
  /\ UNCHANGED <<hookVars, routerVars, widgetVars, tokenVars, listenVars, dialogVars>>

\* The 100 ms timeslice of the recorder of run r elapses: dataavailable.
TranscriberChunk(r, nonEmpty) ==
  /\ r <= transcriber.run
  /\ transcriber.runs[r].rec = "recording"
  /\ transcriber.runs[r].sent < MaxChunks
  /\ transcriber' = transcriberOnData(Quiet(transcriber), r, nonEmpty)
  /\ UNCHANGED <<hookVars, routerVars, widgetVars, tokenVars, listenVars, dialogVars>>

\* The recorder of run r reports an error.
TranscriberRecorderError(r) ==
  /\ r <= transcriber.run
  /\ transcriber.runs[r].rec = "recording"
  /\ transcriber' = transcriberOnRecorderError(Quiet(transcriber), r)
  /\ UNCHANGED <<hookVars, routerVars, widgetVars, tokenVars, listenVars, dialogVars>>

NextTranscriber ==
  \/ \E clientThrows \in BOOLEAN : TranscriberMount(clientThrows)
  \/ \E clientThrows \in BOOLEAN : TranscriberRerun(clientThrows)
  \/ TranscriberUnmount
  \/ \E r \in Runs : TranscriberMicOk(r)
  \/ \E r \in Runs : TranscriberMicFail(r)
  \/ \E r \in Runs : TranscriberOpen(r)
  \/ \E r \in Runs : TranscriberClose(r)
  \/ \E r \in Runs : TranscriberError(r)
  \/ \E r \in Runs, text \in Texts, hasAlt \in BOOLEAN, isFinal \in BOOLEAN :
       TranscriberTranscript(r, text, hasAlt, isFinal)
  \/ \E r \in Runs, nonEmpty \in BOOLEAN : TranscriberChunk(r, nonEmpty)
  \/ \E r \in Runs : TranscriberRecorderError(r)

SpecTranscriber == Init /\ [][NextTranscriber]_vars

\* The component calls startListening().
ListenStart ==
  /\ listening.attempt < MaxAttempts
  /\ listening' = startListening(Quiet(listening))
  /\ UNCHANGED <<hookVars, routerVars, widgetVars, tokenVars, transcriberVars, dialogVars>>

\* The fetch of the token of attempt a fails, or answers without a token.
ListenTokenFail(a) ==
  /\ a <= listening.attempt
  /\ listening.attempts[a].pc = "awaitToken"
  /\ listening' = tokenFailed(Quiet(listening), a)
  /\ UNCHANGED <<hookVars, routerVars, widgetVars, tokenVars, transcriberVars, dialogVars>>

\* The fetch of the token of attempt a answers with a token.
ListenTokenOk(a) ==
  /\ a <= listening.attempt
  /\ listening.attempts[a].pc = "awaitToken"
  /\ listening' = tokenResolved(Quiet(listening), a)
  /\ UNCHANGED <<hookVars, routerVars, widgetVars, tokenVars, transcriberVars, dialogVars>>

ListenMicOk(a) ==
  /\ a <= listening.attempt
  /\ listening.attempts[a].pc = "awaitMic"
  /\ listening' = listenMicResolved(Quiet(listening), a)
  /\ UNCHANGED <<hookVars, routerVars, widgetVars, tokenVars, transcriberVars, dialogVars>>

ListenMicFail(a) ==
  /\ a <= listening.attempt
  /\ listening.attempts[a].pc = "awaitMic"
  /\ listening' = listenMicRejected(Quiet(listening), a)
  /\ UNCHANGED <<hookVars, routerVars, widgetVars, tokenVars, transcriberVars, dialogVars>>

\* The events of the connection of attempt a.  finish() asks the server to
\* close: the connection is open until its Close.
ListenOpen(a) ==
  /\ a <= listening.attempt
  /\ listening.attempts[a].conn = "connecting"
  /\ listening' = [Quiet(listening) EXCEPT !.attempts[a].conn = "open"]
  /\ UNCHANGED <<hookVars, routerVars, widgetVars, tokenVars, transcriberVars, dialogVars>>

ListenClose(a) ==
  /\ a <= listening.attempt
  /\ listening.attempts[a].conn \in {"connecting", "open"}
  /\ listening' = [Quiet(listening) EXCEPT !.attempts[a].conn = "closed"]
  /\ UNCHANGED <<hookVars, routerVars, widgetVars, tokenVars, transcriberVars, dialogVars>>

ListenTranscript(a, transcriptText, hasAlt) ==
  /\ a <= listening.attempt
  /\ listening.attempts[a].conn = "open"
  /\ listening' = listenOnTranscript(Quiet(listening), a, transcriptText, hasAlt)
  /\ Len(listening'.bufferRef) <= MaxBufLen
  /\ UNCHANGED <<hookVars, routerVars, widgetVars, tokenVars, transcriberVars, dialogVars>>

\* The 250 ms timeslice of the recorder of attempt a elapses.
ListenChunk(a, nonEmpty) ==
  /\ a <= listening.attempt
  /\ listening.attempts[a].rec = "recording"
  /\ listening.deepgramRef # Null => listening.attempts[listening.deepgramRef].sent < MaxChunks
  /\ listening' = listenOnData(Quiet(listening), nonEmpty)
  /\ UNCHANGED <<hookVars, routerVars, widgetVars, tokenVars, transcriberVars, dialogVars>>

\* The component calls stopListening().
ListenStop ==
  /\ listening' = stopListening(Quiet(listening))
  /\ UNCHANGED <<hookVars, routerVars, widgetVars, tokenVars, transcriberVars, dialogVars>>

NextListen ==
  \/ ListenStart
  \/ \E a \in Attempts : ListenTokenFail(a)
  \/ \E a \in Attempts : ListenTokenOk(a)
  \/ \E a \in Attempts : ListenMicOk(a)
  \/ \E a \in Attempts : ListenMicFail(a)
  \/ \E a \in Attempts : ListenOpen(a)
  \/ \E a \in Attempts : ListenClose(a)
  \/ \E a \in Attempts, transcriptText \in Heard, hasAlt \in BOOLEAN :
       ListenTranscript(a, transcriptText, hasAlt)
  \/ \E a \in Attempts, nonEmpty \in BOOLEAN : ListenChunk(a, nonEmpty)
  \/ ListenStop

SpecListen == Init /\ [][NextListen]_vars

\* The dialog g is committed, with the transcriber it renders.  A transcriber
\* is mounted at most MaxRuns times.
DialogCommit(g, t) ==
  /\ (rendersTranscriber(g) /\ ~t.mounted) => t.run < MaxRuns
  /\ dialog' = g
  /\ transcriber' = commit(g, t)
  /\ UNCHANGED <<hookVars, routerVars, widgetVars, tokenVars, listenVars>>

\* The parent opens the dialog: the effect on isOpen clears the transcripts
\* and, with autoStart, sets isVoiceActive.
DialogOpen(autoStart) ==
  /\ ~dialog.isOpen
  /\ DialogCommit([dialog EXCEPT !.isOpen = TRUE,
                                 !.allTranscripts = 0,
                                 !.isVoiceActive = IF autoStart THEN TRUE ELSE @],
                  Quiet(transcriber))

\* The parent closes the dialog: it renders nothing, and the effect on isOpen
\* resets isVoiceActive.
DialogClose ==
  /\ dialog.isOpen
  /\ DialogCommit([dialog EXCEPT !.isOpen = FALSE, !.isVoiceActive = FALSE],
                  Quiet(transcriber))

\* The permission query made when the dialog opened answers, or the
\* permission changes later.
DialogPermission(granted) ==
  /\ dialog.isOpen
  /\ DialogCommit([dialog EXCEPT !.hasPermission = IF granted THEN "true" ELSE "false"],
                  Quiet(transcriber))

\* toggleMicrophone, by the microphone button or the Request Permission
\* button: with the permission denied it first awaits getUserMedia.
DialogToggle ==
  /\ dialog.isOpen
  /\ ~dialog.requesting
  /\ DialogCommit(IF dialog.hasPermission = "false"
                  THEN [dialog EXCEPT !.requesting = TRUE]
                  ELSE [dialog EXCEPT !.isVoiceActive = ~@],
                  Quiet(transcriber))

\* The getUserMedia of toggleMicrophone settles.
DialogRequested(granted) ==
  /\ dialog.requesting
  /\ DialogCommit(IF granted
                  THEN [dialog EXCEPT !.requesting = FALSE,
                                      !.hasPermission = "true",
                                      !.isVoiceActive = ~@]
                  ELSE [dialog EXCEPT !.requesting = FALSE],
                  Quiet(transcriber))

\* clearTranscripts, by the Clear button.
DialogClear ==
  /\ dialog.isOpen
  /\ dialog.allTranscripts > 0
  /\ DialogCommit([dialog EXCEPT !.allTranscripts = 0], Quiet(transcriber))

\* A run of the transcriber takes a step; the dialog handles the callbacks
\* the step made.
DialogTranscriber(r) ==
  /\ r <= transcriber.run
  /\ \E t \in transcriberSteps(Quiet(transcriber), r) :
       /\ handleCalls(dialog, t).allTranscripts <= MaxFinals
       /\ DialogCommit(handleCalls(dialog, t), t)

NextDialog ==
  \/ \E autoStart \in BOOLEAN : DialogOpen(autoStart)
  \/ DialogClose
  \/ \E granted \in BOOLEAN : DialogPermission(granted)
  \/ DialogToggle
  \/ \E granted \in BOOLEAN : DialogRequested(granted)
  \/ DialogClear
  \/ \E r \in Runs : DialogTranscriber(r)

SpecDialog == Init /\ [][NextDialog]_vars

\* ------------------------------------------------------------------ claims
NoPending == \A i \in Calls : ~Pending(i)

\* The sessions that hold a microphone / a connection nobody asked to finish.
HoldingMic == {i \in Calls : track[i] = "live"}
LiveConns  == {i \in Calls : conn[i] \in {"connecting", "open"} /\ finishCalls[i] = 0}

\* C1: when startVoice() is called twice in rapid succession (the second call
\* begins while the first is suspended), then once both calls have finished
\* (and nothing was stopped meanwhile) exactly one microphone stream is held
\* and exactly one connection is live, they are the ones the refs point at,
\* and nothing the first call acquired is left unreleased.
C1_AtMostOneSession ==
  \A j, k \in Calls :
    ( /\ j < k
      /\ hist[k].overlapped
      /\ pc[j] = "done" /\ pc[k] = "done"
      /\ NoPending
      /\ \A i \in Calls : ~hist[i].stopped /\ ~hist[i].cancelled /\ ~stopTask[i] )
    => /\ recorderRef # Null /\ dgConnRef # Null
       /\ HoldingMic = {recorderRef}
       /\ LiveConns \subseteq {dgConnRef}

\* C2: a startVoice() invocation that was suspended when stopVoice() ran
\* acquires nothing and changes nothing once its await resolves: no microphone
\* is held, no connection is created, the refs do not point at it, and (unless
\* startVoice() was called again) isVoiceActive stays false.
C2_StaleContinuationDiscarded ==
  \A k \in Calls :
    (hist[k].cancelled /\ ~Pending(k))
    => /\ track[k] = "none"
       /\ conn[k] = "none"
       /\ recorderRef # k /\ dgConnRef # k
       /\ (\A j \in Calls : j > k => pc[j] = "notCalled") => ~isVoiceActive

\* C3: after stopVoice() has returned and the recorder's stop task, if any, has
\* run, the microphone track of the stopped session is stopped, exactly once,
\* and its connection has been asked to finish, whatever state it was in.
C3_ReleasedOnStop ==
  \A k \in Calls :
    (hist[k].stopped /\ ~stopTask[k])
    => /\ track[k] = "ended"
       /\ trackStops[k] = 1
       /\ finishCalls[k] >= 1

\* C4: a session's recorder records, and a chunk of it exists, only after the
\* session's connection has emitted Open.
C4_CaptureOnlyAfterOpen ==
  \A k \in Calls :
    (rec[k] = "recording" \/ stopTask[k] \/ converting[k] > 0) => hist[k].opened

\* C4's case: a chunk on its way to send(), after Open.
C4_Witness == \E k \in Calls : converting[k] > 0 /\ hist[k].opened

\* C5: once a connection that had opened has emitted Error or Close, its
\* session is torn down as by stopVoice(): the recorder is not recording, the
\* microphone track is stopped once the stop task has run, the refs do not
\* point at the session, and an Error has been reported through onError.
C5_RemoteEndTearsDown ==
  \A k \in Calls :
    (conn[k] = "closed" /\ hist[k].opened)
    => /\ rec[k] # "recording"
       /\ ~stopTask[k] => track[k] = "ended"
       /\ recorderRef # k /\ dgConnRef # k
       /\ hist[k].errored => onErrorCalls[k] >= 1

\* C6: when the token fetch fails, startVoice calls onError exactly once and
\* sets isVoiceActive to false, and that invocation never acquires a
\* microphone, a recorder or a connection.
C6_CredentialFailFast ==
  [][\A k \in Calls :
       pc'[k] = "tokenFailed"
       => /\ onErrorCalls'[k] = 1
          /\ track'[k] = "none" /\ rec'[k] = "none" /\ conn'[k] = "none"
          /\ pc[k] # "tokenFailed" => ~isVoiceActive']_vars

\* C6's case: an invocation whose token fetch failed.
C6_Witness == \E k \in Calls : pc[k] = "tokenFailed" /\ ~isVoiceActive

\* C7: when getUserMedia rejects, startVoice calls onError exactly once and
\* sets isVoiceActive to false, and no connection (and no recorder) exists for
\* that invocation, then or later.
C7_MicDenialFailFast ==
  [][\A k \in Calls :
       pc'[k] = "micFailed"
       => /\ onErrorCalls'[k] = 1
          /\ conn'[k] = "none" /\ rec'[k] = "none" /\ track'[k] = "none"
          /\ dgConnRef' # k /\ recorderRef' # k
          /\ pc[k] # "micFailed" => ~isVoiceActive']_vars

\* C7's case: an invocation whose getUserMedia was rejected.
C7_Witness == \E k \in Calls : pc[k] = "micFailed" /\ ~isVoiceActive

\* The state stopVoice() leaves, and that a second stopVoice() leaves it as it is.
IdleReset ==
  /\ recorderRef = Null /\ dgConnRef = Null
  /\ ~isVoiceActive
  /\ bufferRef = <<>> /\ liveTranscript = <<>>
  /\ cleanupVoice(Cur) = Cur
  /\ MarkStop(FALSE) = hist

\* C8: every stopVoice(), from any state, leaves isVoiceActive false, the
\* committed buffer and the live transcript empty and both refs null, and a
\* stopVoice() called right after it changes nothing.
C8_StopIdempotent == [][(\E threw \in BOOLEAN : StopVoice(threw)) => IdleReset']_vars

\* C8's case: stopVoice() has stopped a streaming session.
C8_Witness ==
  \E k \in Calls : hist[k].stopped /\ hist[k].opened /\ stopTask[k] /\ IdleReset

\* C9: when recorder.stop() fails inside cleanupVoice, the other two release
\* steps are still carried out: the microphone track is stopped and the
\* connection is asked to finish; and the state is Idle.
C9_TeardownStepsIndependent ==
  \A k \in Calls :
    (hist[k].stopFailed /\ ~stopTask[k])
    => /\ track[k] = "ended"
       /\ finishCalls[k] >= 1
       /\ recorderRef # k /\ dgConnRef # k

\* C10: a Transcript event changes bufferRef only by appending to it, and an
\* interim event (is_final = false) does not change it.
C10_CommittedAppendOnly ==
  [][bufferRef' # bufferRef
     => /\ \/ IsPrefix(bufferRef, bufferRef')
           \/ Len(finals') < Len(finals)
           \/ ~\E k \in Calls, text \in Texts, hasAlt \in BOOLEAN, isFinal \in BOOLEAN :
                  ConnTranscript(k, text, hasAlt, isFinal)
        /\ \/ finals' # finals
           \/ ~\E k \in Calls, text \in Texts, hasAlt \in BOOLEAN :
                  ConnTranscript(k, text, hasAlt, FALSE)]_vars

\* C10's case: two final texts committed, then an interim text shown.
C10_Witness ==
  /\ bufferRef = <<"a", " ", "b">>
  /\ liveTranscript = <<"a", " ", "b", " ", "a">>

\* The texts joined by single spaces, in order.
RECURSIVE JoinFinals(_)
JoinFinals(fs) ==
  IF fs = <<>> THEN <<>>
  ELSE IF Len(fs) = 1 THEN fs[1]
  ELSE fs[1] \o <<" ">> \o JoinFinals(Tail(fs))

\* C11: an interim Transcript event whose trimmed text t is not empty sets the
\* live transcript to committed + " " + t when the committed text is not empty
\* and to exactly t when it is empty; an interim event whose trimmed text is
\* empty changes neither the live transcript nor the committed text.
C11_PartialPreview ==
  [][\A k \in Calls, text \in Texts, hasAlt \in BOOLEAN :
       ConnTranscript(k, text, hasAlt, FALSE)
       => LET t == transcriptOf(text, hasAlt)
          IN  /\ bufferRef' = bufferRef
              /\ liveTranscript' = IF t = <<>> THEN liveTranscript
                                   ELSE IF bufferRef = <<>> THEN t
                                   ELSE bufferRef \o <<" ">> \o t]_vars

\* C12: a final Transcript event whose trimmed text t is not empty appends t to
\* the committed text, after one space unless the committed text was empty,
\* makes the live transcript equal to the committed text and calls
\* onTranscriptUpdate exactly once, with the new committed text; no other step
\* calls onTranscriptUpdate; and the committed text always is the non-empty
\* trimmed final texts received since it was last reset, joined by single
\* spaces in arrival order.
C12_FinalCommit ==
  /\ [](bufferRef = JoinFinals(finals))
  /\ [][IF Len(finals') > Len(finals)
        THEN LET t == finals'[Len(finals')]
             IN  /\ bufferRef' = bufferRef \o (IF bufferRef = <<>> THEN <<>> ELSE <<" ">>) \o t
                 /\ liveTranscript' = bufferRef'
                 /\ emitted' = <<bufferRef'>>
        ELSE emitted' = <<>>]_vars

\* C12's case: the second final text of a session has just been committed and
\* reported.
C12_Witness ==
  /\ Len(finals) = 2
  /\ emitted = <<bufferRef>>
  /\ bufferRef = <<"b", " ", "a">>

\* C13: when a final Transcript event with an empty trimmed text arrives while
\* a preview is shown (a non-empty interim text came last), the handler
\* discards the preview: the live transcript returns to the committed text,
\* nothing is appended and onTranscriptUpdate is not called.
C13_EmptyFinalDiscardsPreview ==
  \A k \in Calls, text \in Texts, hasAlt \in BOOLEAN :
    (conn[k] = "open" /\ liveTranscript # bufferRef /\ transcriptOf(text, hasAlt) = <<>>)
    => LET s == onTranscript(Cur, text, hasAlt, TRUE)
       IN  /\ s.liveTranscript = bufferRef
           /\ s.bufferRef = bufferRef
           /\ s.emitted = <<>>

\* The trigger phrases in their priority order, and the handler bound to each.
TriggerPhrases == <<CreateCourse, JoinCourse, SubmitTask>>
BoundHandlers ==
  <<"handleCreateCourseButtonClick", "handleJoinCourseAction", "handleSubmitTaskAction">>

\* The handler bound to the first trigger phrase the lowercased transcript
\* contains, or the fallback.
SelectedHandler(t) ==
  LET hits == {i \in 1..3 : includes(toLowerCase(t), TriggerPhrases[i])}
  IN  IF hits = {} THEN "handleFallbackAction"
      ELSE BoundHandlers[CHOOSE i \in hits : \A j \in hits : i <= j]

\* C14: every onTranscriptUpdate call the voice session makes has the command
\* router scan the committed transcript and invoke exactly one handler: the
\* step that commits "please create course now" invokes the create-course
\* handler once.
C14_DispatchPerUpdate ==
  emitted # <<>> => fired = <<SelectedHandler(bufferRef)>>

\* C15: for every transcript, handleTranscriptUpdate invokes exactly one
\* handler: the one bound to the first of "create course", "join course",
\* "submit task", in this order, that the lowercased transcript contains, or
\* the fallback handler if it contains none.
C15_RouterSelection ==
  fired = <<>> \/ fired = <<SelectedHandler(spoken)>>

\* C15's case: a transcript with a capital letter that contains two trigger
\* phrases has been routed to the handler of the first in priority.
C15_Witness ==
  /\ fired = <<"handleCreateCourseButtonClick">>
  /\ includes(toLowerCase(spoken), JoinCourse)
  /\ ~includes(spoken, CreateCourse)

\* C16: once the committed transcript contains a trigger phrase, every later
\* update of the session invokes a bound handler, not the fallback: the
\* handler of that phrase, unless the transcript now also contains a phrase of
\* higher priority.
C16_RematchWithinSession ==
  [][\A i \in 1..3 :
       (emitted' # <<>> /\ includes(toLowerCase(bufferRef), TriggerPhrases[i]))
       => /\ Len(fired') = 1
          /\ fired'[1] # "handleFallbackAction"
          /\ \/ fired'[1] = BoundHandlers[i]
             \/ \E j \in 1..(i - 1) : includes(toLowerCase(bufferRef'), TriggerPhrases[j])]_vars

\* C17: in every reachable state at most one element carries the highlight,
\* and in the step in which an element gains the highlight every other
\* element loses it.
C17_AtMostOneHighlight ==
  /\ [](Cardinality(highlighted) <= 1)
  /\ [][\A e \in highlighted' \ highlighted : highlighted' = {e}]_vars

\* C17's case: the signup button was highlighted while the highlight of the
\* dashboard link, applied before, had not expired; only the button carries it.
C17_Witness ==
  /\ highlighted = {"#signup-button"}
  /\ \E i \in 1..Len(timers) :
       timers[i].kind = "expire" /\ timers[i].selector = "#dashboard-link"

\* C18: when the session ends, by the call-end event, by endCall() or by the
\* unmount of the widget, then after the handler has run no element carries
\* the highlight and currentHighlight is null.
C18_ForcedClearOnSessionEnd ==
  [][((\E closed \in Page \cup {NoHighlight} : CallEnd(closed)) \/ EndCall \/ Unmount)
     => (highlighted' = {} /\ currentHighlight' = NoHighlight)]_vars

\* The timer that fires is the 5000 ms timer of the latest highlight of e.
OwnExpiry(e) ==
  /\ TimerExpire
  /\ Head(timers).selector = e
  /\ \A i \in 2..Len(timers) : ~(timers[i].kind = "expire" /\ timers[i].selector = e)

\* The step ends the session (the effect's cleanup stops the instance too).
SessionEnds ==
  \/ \E closed \in Page \cup {NoHighlight} : CallEnd(closed)
  \/ EndCall
  \/ Unmount
  \/ Render

\* C19: a highlight stays on its element until the 5000 ms timer created with
\* it fires, and is removed then: an element loses the highlight only when
\* the timer of its latest highlight fires, when another element is
\* highlighted, or when the session ends; in particular the timer of an
\* earlier highlight does not remove a later one.
C19_AutoClearAfterDuration ==
  [][/\ \A e \in highlighted \ highlighted' :
          \/ OwnExpiry(e)
          \/ (TimerHighlight /\ highlighted' # {})
          \/ SessionEnds
     /\ TimerExpire => Head(timers).selector \notin highlighted']_vars

\* The lowercased utterance contains one of the interaction keywords.
ContainsKeyword(u) ==
  LET lowered == toLowerCase(u)
  IN  \E i \in 1..Len(INTERACTION_KEYWORDS) : includes(lowered, INTERACTION_KEYWORDS[i])

\* The highlights scheduled and not yet applied.
Scheduled(ts) == Cardinality({i \in 1..Len(ts) : ts[i].kind = "highlight"})

\* C20: parseForUIElements finds no target in an utterance that contains no
\* interaction keyword, whatever bound phrase it contains; and a highlight is
\* scheduled only by the step that receives a transcript message of role
\* assistant whose utterance contains an interaction keyword.
C20_KeywordGating ==
  /\ [](~ContainsKeyword(spoken) => parseForUIElements(spoken) = NoMatch)
  /\ [][Scheduled(timers') > Scheduled(timers)
        => /\ Len(transcript') = Len(transcript) + 1
           /\ transcript'[Len(transcript')].role = "assistant"
           /\ ContainsKeyword(transcript'[Len(transcript')].text)]_vars

\* C20's case: the assistant's utterance names the dashboard and has no
\* interaction keyword; its message has been received and nothing is scheduled.
C20_Witness ==
  /\ transcript # <<>>
  /\ transcript[Len(transcript)] = [role |-> "assistant", text |-> spoken]
  /\ includes(toLowerCase(spoken), <<"d","a","s","h","b","o","a","r","d">>)
  /\ ~ContainsKeyword(spoken)
  /\ timers = <<>>

\* The entries of UI_ELEMENT_MAP whose phrase the lowercased utterance contains.
Mentioned(u) ==
  LET lowered == toLowerCase(u)
  IN  {i \in 1..Len(UI_ELEMENT_MAP) : includes(lowered, UI_ELEMENT_MAP[i].elementName)}

\* The entry declared first among those the utterance mentions.
DeclaredFirst(u) ==
  LET m == Mentioned(u)
  IN  IF m = {} THEN NoMatch
      ELSE UI_ELEMENT_MAP[CHOOSE i \in m : \A j \in m : i <= j]

\* The message received by the step.
Received == transcript'[Len(transcript')]

\* C21: for an assistant utterance that contains an interaction keyword,
\* parseForUIElements returns the entry of UI_ELEMENT_MAP declared first among
\* those whose phrase the lowercased utterance contains, and null when it
\* contains none: the step that receives the utterance schedules one
\* highlight, for the locator of that entry, or none.
C21_FirstDeclaredMatch ==
  [][(/\ Len(transcript') > Len(transcript)
      /\ Received.role = "assistant"
      /\ ContainsKeyword(Received.text))
     => LET first == DeclaredFirst(Received.text)
        IN  IF first = NoMatch
            THEN Scheduled(timers') = Scheduled(timers)
            ELSE /\ Scheduled(timers') = Scheduled(timers) + 1
                 /\ timers'[Len(timers')].selector = first.selector]_vars

\* C21's case: the utterance names the dashboard before the courses, the
\* courses are declared before the dashboard, and the highlight scheduled for
\* its message is the one of the course grid.
C21_Witness ==
  /\ spoken = <<"O","p","e","n"," ","d","a","s","h","b","o","a","r","d"," ","c","o","u","r","s","e","s">>
  /\ Cardinality({UI_ELEMENT_MAP[i].selector : i \in Mentioned(spoken)}) = 2
  /\ transcript # <<>>
  /\ transcript[Len(transcript)] = [role |-> "assistant", text |-> spoken]
  /\ timers # <<>>
  /\ timers[Len(timers)].selector = "#course-grid"

\* The 500 ms timer that fires next.
DueHighlight ==
  CHOOSE i \in 1..Len(timers) :
    timers[i].kind = "highlight" /\ \A j \in 1..(i - 1) : timers[j].kind # "highlight"

\* C22: when the element highlightElement is asked to highlight is not on the
\* page, the call changes no element's highlight and not currentHighlight,
\* schedules no expiry timer, and leaves the call and the transcript as they
\* are: the widget goes on handling the call's events.
C22_MissingTargetSkipped ==
  [][(TimerHighlight /\ timers[DueHighlight].selector \notin Page)
     => /\ highlighted' = highlighted
        /\ currentHighlight' = currentHighlight
        /\ timers' = RemoveAt(timers, DueHighlight)
        /\ callState' = callState /\ vapi' = vapi /\ pendingEnds' = pendingEnds
        /\ isConnected' = isConnected /\ transcript' = transcript
        /\ mounted' = mounted]_vars

\* C22's case: while the signup button is highlighted the assistant asked to
\* open "your courses", whose grid is not on the page; the timer of that
\* message has fired, the button is still highlighted and the call goes on.
C22_Witness ==
  /\ \E i \in 1..Len(transcript) :
       /\ transcript[i].role = "assistant"
       /\ parseForUIElements(transcript[i].text).selector = "#course-grid"
  /\ "#course-grid" \notin Page
  /\ Scheduled(timers) = 0
  /\ highlighted = {"#signup-button"} /\ currentHighlight = "#signup-button"
  /\ \E i \in 1..Len(timers) : timers[i].kind = "expire"
  /\ callState = "started" /\ mounted

\* The response body has the field.
HasField(r, name) == \E f \in r.body : f[1] = name

\* The request met one of the failures: no API key, an upstream error, or an
\* exception (createClient or grantToken threw, or the grant had no result).
Failed(req) ==
  \/ req.apiKey \in {Undefined, ""}
  \/ req.clientThrew
  \/ req.grant.rejected \/ req.grant.error # NoError \/ ~req.grant.hasResult

\* C23: the handler of GET /api/deepgram-token never throws; a response has a
\* token field only when the API key is configured and the grant returned no
\* error; every failed request is answered with status 500 and a body that has
\* an error field and no token field.
C23_TokenEndpoint ==
  \A k \in DOMAIN requests :
    LET req == requests[k]
    IN  /\ req.pc # "threw"
        /\ req.pc = "responded" =>
             /\ HasField(req.response, "token")
                  => /\ req.apiKey \notin {Undefined, ""}
                     /\ ~req.grant.rejected /\ req.grant.error = NoError
             /\ Failed(req)
                  => /\ req.response.status = 500
                     /\ HasField(req.response, "error")
                     /\ ~HasField(req.response, "token")

\* C23's case: one request was answered with a token, one after grantToken()
\* rejected and one after an upstream error.
C23_Witness ==
  /\ \E k \in DOMAIN requests :
       requests[k].pc = "responded" /\ requests[k].response = json({<<"token", "tok">>}, 200)
  /\ \E k \in DOMAIN requests :
       requests[k].pc = "responded" /\ requests[k].grant.rejected
  /\ \E k \in DOMAIN requests :
       requests[k].pc = "responded" /\ requests[k].grant.error # NoError

\* C24: the call in progress is stopped and the Vapi instance replaced only
\* by endCall() or by the unmount of the widget (the other side may hang up);
\* no other step, and none that follows a change of currentHighlight, stops
\* the call or creates a Vapi instance.
C24_HighlightKeepsCall ==
  [][(vapi' # vapi \/ (callState = "started" /\ callState' # "started"))
     => (EndCall \/ Unmount \/ RemoteHangup)]_vars

\* C25: a Transcript event of a connection on which finish() has been called,
\* by stopVoice() or by a restart, changes neither bufferRef nor the live
\* transcript and calls onTranscriptUpdate for nothing.
C25_SessionIsolation ==
  [][\A k \in Calls :
       (/\ finishCalls[k] > 0
        /\ \E text \in Texts, hasAlt \in BOOLEAN, isFinal \in BOOLEAN :
             ConnTranscript(k, text, hasAlt, isFinal))
       => /\ bufferRef' = bufferRef
          /\ liveTranscript' = liveTranscript
          /\ emitted' = <<>>]_vars

\* Session k is live: its recorder is recording, or its connection is open
\* and has not been asked to finish.
Live(k) == rec[k] = "recording" \/ (conn[k] = "open" /\ finishCalls[k] = 0)

\* C26: whenever the session the refs point at is live, isVoiceActive is
\* true.  (Stated for the executions in which stopVoice() was never called and
\* no startVoice() overlapped a suspended invocation: restarting a streaming
\* session is one.)
C26_ActiveTracksLiveness ==
  (\A j \in Calls : ~hist[j].overlapped /\ ~hist[j].cancelled /\ ~hist[j].stopped)
  => \A k \in Calls : (Live(k) /\ recorderRef = k /\ dgConnRef = k) => isVoiceActive

\* C27: when getUserMedia of a run of DeepgramTranscriber's effect resolves
\* after the run's cleanup (unmount, or a re-run of the effect), the tracks of
\* the stream are stopped in that step, no connection and no recorder is
\* created, no ref and no state changes, and no setter or callback is called.
C27_StaleStartDiscarded ==
  [][\A r \in DOMAIN transcriber.runs :
       (/\ transcriber.runs[r].pc = "awaitMic"
        /\ ~transcriber.runs[r].isComponentMounted
        /\ transcriber'.runs[r].pc \in {"running", "discarded"})
       => /\ transcriber'.runs[r].track = "ended"
          /\ transcriber'.runs[r].conn = "none"
          /\ transcriber'.runs[r].rec = "none"
          /\ transcriber'.calls = <<>>
          /\ transcriber' = [transcriber EXCEPT !.runs[r] = transcriber'.runs[r],
                                                 !.calls = <<>>]]_vars

\* The component was unmounted while getUserMedia was pending, and the stream
\* that resolved afterwards has been discarded.
C27_Witness ==
  /\ ~transcriber.mounted
  /\ \E r \in DOMAIN transcriber.runs : /\ transcriber.runs[r].pc = "discarded"
                      /\ transcriber.runs[r].track = "ended"
                      /\ transcriber.runs[r].conn = "none"
                      /\ transcriber.runs[r].rec = "none"

\* C28: no run of DeepgramTranscriber's effect sends an audio chunk to its
\* connection before the connection has emitted Open.
C28_NoAudioBeforeOpen ==
  \A r \in DOMAIN transcriber.runs : ~transcriber.runs[r].sentBeforeOpen

\* C29: when getUserMedia of a startListening() call rejects, the call ends
\* with no connection of its own connecting or open, unless it asked it to
\* finish, and with isListening false.
C29_FailFastOrder ==
  [][\A a \in DOMAIN listening.attempts :
       (listening.attempts[a].pc = "awaitMic" /\ listening'.attempts[a].pc = "micFailed")
       => /\ \/ listening'.attempts[a].conn \in {"none", "closed"}
             \/ listening'.attempts[a].finished
          /\ ~listening'.isListening]_vars

\* C30: once startListening() has been called after stopListening(), the
\* transcript holds the text that the new call's own connection delivered and
\* nothing else; it is empty until that connection delivers text.
C30_TranscriptPerSession ==
  \A a \in DOMAIN listening.attempts :
    (a = listening.attempt /\ listening.attempts[a].afterStop)
    => listening.transcript = listening.attempts[a].own

\* C31: while no call is in progress (before the first call, and from the end
\* of a call by the call-end event, endCall() or the unmount until the next
\* startCall()), no step gives the highlight to a page element.
C31_NoHighlightAfterEnd ==
  [][callState # "started" => highlighted' \subseteq highlighted]_vars

\* C32: while the widget is mounted, currentHighlight is non-null exactly
\* when some page element carries the highlight, and then that element is the
\* only one and currentHighlight is its selector.
C32_IndicatorConsistent ==
  mounted => IF currentHighlight = NoHighlight THEN highlighted = {}
             ELSE highlighted = {currentHighlight}

\* C33: a chunk that is sent once the recorder of its session has stopped
\* (the chunk flushed by recorder.stop(), or one whose arrayBuffer() was
\* pending at the stop) is sent before finish() is called on the session's
\* connection: dgConn.send is not called after dgConn.finish().
C33_NoSendAfterFinish ==
  [][\A k \in Calls :
       (converting'[k] < converting[k] /\ rec[k] = "inactive") => finishCalls[k] = 0]_vars

\* C34: whenever VoiceTranscriberDialog is closed or its isVoiceActive is
\* false, the transcriber is unmounted and no run of it is live: no recorder
\* is recording, no microphone track is live and every connection that was
\* created has been asked to finish or has closed.
C34_ClosedDialogHoldsNoSession ==
  (~dialog.isOpen \/ ~dialog.isVoiceActive)
  => /\ ~transcriber.mounted
     /\ \A r \in DOMAIN transcriber.runs :
          /\ transcriber.runs[r].rec # "recording"
          /\ transcriber.runs[r].track # "live"
          /\ \/ transcriber.runs[r].conn \in {"none", "closed"}
             \/ transcriber.runs[r].finishCalls > 0

\* The dialog was closed while its transcriber was streaming: the recorder
\* was stopped, the track ended and the open connection asked to finish.
C34_Witness ==
  /\ ~dialog.isOpen
  /\ \E r \in DOMAIN transcriber.runs :
       /\ transcriber.runs[r].pc = "running"
       /\ transcriber.runs[r].sent > 0
       /\ transcriber.runs[r].rec = "inactive"
       /\ transcriber.runs[r].track = "ended"
       /\ transcriber.runs[r].conn = "open"
       /\ transcriber.runs[r].finishCalls = 1

\* The utterance that names entry j of UI_ELEMENT_MAP after a keyword.
Naming(j) == <<"C", "l", "i", "c", "k", " ">> \o UI_ELEMENT_MAP[j].elementName

\* C35: every phrase of UI_ELEMENT_MAP can be selected: no phrase declared
\* before it with another locator is contained in it, and the step that
\* receives the utterance "Click <phrase>" schedules the highlight of that
\* phrase's locator.
C35_EveryPhraseSelectable ==
  [][\A j \in 1..Len(UI_ELEMENT_MAP) :
       (Len(transcript') > Len(transcript) /\ Received.text = Naming(j))
       => /\ \A i \in 1..(j - 1) :
               includes(LoweredNames[j], LoweredNames[i])
               => UI_ELEMENT_MAP[i].selector = UI_ELEMENT_MAP[j].selector
          /\ Len(timers') = Len(timers) + 1
          /\ timers'[Len(timers')].selector = UI_ELEMENT_MAP[j].selector]_vars

\* The step called the callback prop `name`.
Called(name) ==
  \E i \in 1..Len(transcriber'.calls) : transcriber'.calls[i] = name

\* C36: a Transcript event that is not final, or whose text is missing or
\* blank, or that arrives after the cleanup of its run, calls nothing; and
\* no step taken while DeepgramTranscriber is unmounted (an event of its
\* connection or recorder, or getUserMedia settling) calls onTranscript or
\* onError.
C36_CallbackDiscipline ==
  [][/\ \/ transcriber'.calls = <<>>
        \/ transcriber'.runs # transcriber.runs
        \/ \A r \in DOMAIN transcriber.runs, text \in Texts,
              hasAlt \in BOOLEAN, isFinal \in BOOLEAN :
             \/ /\ isFinal /\ hasAlt /\ trim(text) # <<>>
                /\ transcriber.runs[r].isComponentMounted
                /\ transcriber.mounted
             \/ ~TranscriberTranscript(r, text, hasAlt, isFinal)
     /\ (~transcriber.mounted /\ ~transcriber'.mounted)
          => ~Called("onTranscript") /\ ~Called("onError")]_vars

\* The component is unmounted, a start of it has failed, and the last step,
\* taken after the unmount, called nothing.
C36_Witness ==
  /\ ~transcriber.mounted
  /\ transcriber.calls = <<>>
  /\ \E r \in DOMAIN transcriber.runs :
       /\ transcriber.runs[r].pc = "failed"
       /\ ~transcriber.runs[r].isComponentMounted

=============================================================================
